---- MODULE Spec2Model ----
(***************************************************************************)
(* OracleMint: the bulk synchronisation engine (lib/scryfall/bulk-sync),   *)
(* the rate-limited Scryfall client (lib/scryfall/client), the card        *)
(* resolver (lib/scryfall/resolve) and the name normaliser                  *)
(* (lib/utils/card-names), modelled as state machines over one store.      *)
(*                                                                         *)
(* Strings are sequences of characters.  An oracle id is the    *)
(* position of its record in the bulk file (ids are distinct), NULL is the *)
(* null of `lastOracleId: string | null`.                                  *)
(***************************************************************************)
EXTENDS Integers, Sequences, FiniteSets, TLC

VARIABLES
  stream,    \* the bulk file: the sequence of its lines (their kinds), fixed per behaviour
  runs,      \* the SyncRun table: run id -> row, or NoRun
  inv,       \* the running startSync/processSyncRun invocation: its locals and position
  cards,     \* the Card table: oracle id -> row, or NoCard
  faces,     \* the CardFace table: oracle id -> rows in insertion order
  rulings,   \* the Ruling table: oracle id -> rows in insertion order
  calls,     \* history: run id -> record position -> number of upsertCard calls made for it
  pauses,    \* history: run id -> number of times the run was paused
  writer,    \* store writers (upsertCard, upsertRulings in progress): id -> position
  observed,  \* what a reader of the store has just read
  log,       \* history: the resolveCardName calls made, or the requests sent, in order
  clock,     \* Date.now(), ms
  lastRequest, \* rateLimiter.lastRequest
  callers,   \* callers of the Scryfall client: id -> position in fetchWithBackoff
  faults     \* the failures (429, network error, timeout) the remote will still produce

vars == <<stream, runs, inv, cards, faces, rulings, calls, pauses,
          writer, observed, log, clock, lastRequest, callers, faults>>

syncVars == <<stream, runs, inv, calls, pauses>>
storeVars == <<cards, faces, rulings>>
writerVars == <<writer, observed>>
clientVars == <<clock, lastRequest, callers, faults>>

-----------------------------------------------------------------------------
(* Bounds of the model *)

StreamLen == 3        \* lines of the bulk file
MaxChunk == 2         \* most lines one reader.read() delivers
MaxInvocations == 3   \* startSync invocations per behaviour

\* BATCH_SIZE is 500 in the source; the model runs it scaled down.
BATCH_SIZE == 2

NULL == 0

Min(a, b) == IF a < b THEN a ELSE b

\* The ids a SyncRun row can take: the slots of the table
RunIds == DOMAIN runs
Positions == 1..StreamLen

-----------------------------------------------------------------------------
(* Strings and the name normaliser *)

\* The characters of the model: letters in both cases, a letter with a diacritic
\* ("e_acute", U+00E9), the ASCII apostrophe and the typographic one ("rsquo", U+2019),
\* punctuation, whitespace, slash, hyphen.
Chars == {"a", "b", "c", "e", "A", "e_acute", "'", "rsquo", "!", " ", "/", "-"}

WordChars == {"a", "b", "c", "e", "A"}     \* \w
SpaceChars == {" "}                         \* \s

\* toLowerCase, then normalize('NFD') and the removal of U+0300..U+036f, per character
FoldChar(c) ==
  CASE c = "A" -> "a"
    [] c = "e_acute" -> "e"
    [] OTHER -> c

RECURSIVE MapFold(_)
MapFold(s) == IF s = <<>> THEN <<>> ELSE <<FoldChar(Head(s))>> \o MapFold(Tail(s))

\* .replace(/['']/g, "'"): both characters of the class are the ASCII apostrophe
ReplaceApostrophes(s) == [i \in 1..Len(s) |-> IF s[i] \in {"'", "'"} THEN "'" ELSE s[i]]

\* .replace(/[^\w\s'/-]/g, '')
KeptChar(c) == c \in WordChars \cup SpaceChars \cup {"'", "/", "-"}

StripSpecial(s) == SelectSeq(s, KeptChar)

\* .replace(/\s+/g, ' ')
RECURSIVE CollapseSpaces(_)
CollapseSpaces(s) ==
  IF s = <<>> THEN <<>>
  ELSE IF Head(s) \in SpaceChars
       THEN IF Len(s) > 1 /\ s[2] \in SpaceChars
            THEN CollapseSpaces(Tail(s))
            ELSE <<" ">> \o CollapseSpaces(Tail(s))
       ELSE <<Head(s)>> \o CollapseSpaces(Tail(s))

RECURSIVE TrimLeft(_)
TrimLeft(s) == IF s # <<>> /\ Head(s) \in SpaceChars THEN TrimLeft(Tail(s)) ELSE s

RECURSIVE TrimRight(_)
TrimRight(s) ==
  IF s # <<>> /\ s[Len(s)] \in SpaceChars THEN TrimRight(SubSeq(s, 1, Len(s) - 1)) ELSE s

Trim(s) == TrimRight(TrimLeft(s))

\* A normaliser that removes the special characters last
normalizeName_StripLast(name) ==
  StripSpecial(Trim(CollapseSpaces(ReplaceApostrophes(MapFold(name)))))

normalizeName(name) ==
  Trim(CollapseSpaces(StripSpecial(ReplaceApostrophes(MapFold(name)))))

\* String.prototype.includes('//')
IncludesSlashes(s) == \E i \in 1..(Len(s) - 1) : s[i] = "/" /\ s[i + 1] = "/"

\* String.prototype.split('//'): the pieces between non-overlapping separators, left to right
RECURSIVE SplitFrom(_, _)
SplitFrom(s, acc) ==
  IF s = <<>> THEN <<acc>>
  ELSE IF Len(s) >= 2 /\ s[1] = "/" /\ s[2] = "/"
       THEN <<acc>> \o SplitFrom(SubSeq(s, 3, Len(s)), <<>>)
       ELSE SplitFrom(Tail(s), Append(acc, Head(s)))

SplitSlashes(s) == SplitFrom(s, <<>>)

\* [...new Set(variants)]: duplicates removed, first occurrence kept
RECURSIVE Dedupe(_, _)
Dedupe(s, seen) ==
  IF s = <<>> THEN <<>>
  ELSE IF Head(s) \in seen THEN Dedupe(Tail(s), seen)
       ELSE <<Head(s)>> \o Dedupe(Tail(s), seen \cup {Head(s)})

\* A parser that keeps the parts as split(), with their blanks
parseCardNameVariants_Untrimmed(input) ==
  LET normalized == normalizeName(input)
      parts == IF IncludesSlashes(normalized) THEN SplitSlashes(normalized) ELSE <<>>
  IN Dedupe(<<normalized>> \o parts, {})

parseCardNameVariants(input) ==
  LET normalized == normalizeName(input)
      parts == IF IncludesSlashes(normalized)
               THEN [i \in 1..Len(SplitSlashes(normalized)) |-> Trim(SplitSlashes(normalized)[i])]
               ELSE <<>>
  IN Dedupe(<<normalized>> \o parts, {})

-----------------------------------------------------------------------------
(* The store: Card, CardFace and Ruling tables *)

NoCard == [present |-> FALSE]

\* A row whose normalizedName is the name as written, not its normal form
CardRow_RawName(scryfallCard) ==
  [present |-> TRUE,
   name |-> scryfallCard.name,
   normalizedName |-> scryfallCard.name]

\* db.card.upsert: create or overwrite the row of scryfallCard.oracle_id,
\* normalizedName derived from the name written
CardRow(scryfallCard) ==
  [present |-> TRUE,
   name |-> scryfallCard.name,
   normalizedName |-> normalizeName(scryfallCard.name)]

\* db.cardFace.create for face i (0-based) of the record
FaceRow(scryfallCard, i) ==
  [faceIndex |-> i,
   name |-> scryfallCard.card_faces[i + 1],
   normalizedName |-> normalizeName(scryfallCard.card_faces[i + 1])]

NewFaceRows(scryfallCard) ==
  [i \in 1..Len(scryfallCard.card_faces) |-> FaceRow(scryfallCard, i - 1)]

\* scryfallCard.card_faces && scryfallCard.card_faces.length > 0
HasFaces(scryfallCard) == Len(scryfallCard.card_faces) > 0

\* The face rows of an entity after upsertCard: replaced only when the record has faces
FacesAfterUpsert(old, scryfallCard) ==
  IF HasFaces(scryfallCard) THEN NewFaceRows(scryfallCard) ELSE old

\* upsertCard (sync engine), run to completion: the Card and CardFace tables after it
upsertCard(c, f, scryfallCard) ==
  [cards |-> [c EXCEPT ![scryfallCard.oracle_id] = CardRow(scryfallCard)],
   faces |-> [f EXCEPT ![scryfallCard.oracle_id] =
                FacesAfterUpsert(f[scryfallCard.oracle_id], scryfallCard)]]

\* upsertCardFromScryfall (resolver), run to completion: the same statements
upsertCardFromScryfall(c, f, scryfallCard) ==
  [cards |-> [c EXCEPT ![scryfallCard.oracle_id] = CardRow(scryfallCard)],
   faces |-> [f EXCEPT ![scryfallCard.oracle_id] =
                FacesAfterUpsert(f[scryfallCard.oracle_id], scryfallCard)]]

\* No store writer or reader at work, no client call in progress
NoWriter == [pc |-> "idle"]

IdleWriters ==
  /\ writer = [w \in {} |-> NoWriter]
  /\ observed = [seen |-> FALSE]

IdleClient ==
  /\ clock = 0
  /\ lastRequest = 0
  /\ callers = [c \in {} |-> [pc |-> "idle"]]
  /\ faults = 0

-----------------------------------------------------------------------------
(* The bulk file *)

\* A line is a record that upserts ("card"), a record whose upsert raises ("rej"),
\* a line that fails JSON.parse ("bad"), or a blank or bracket-only line ("skip").
LineKinds == {"card", "rej", "bad", "skip"}

\* The record on line p: oracle id p, a name, and two faces on every second record
BulkCard(p) ==
  [oracle_id |-> p,
   name |-> [i \in 1..p |-> "a"],
   card_faces |-> IF p % 2 = 0 THEN << <<"b">>, <<"c">> >> ELSE << >>]

IsRecord(kind) == kind \in {"card", "rej"}

-----------------------------------------------------------------------------
(* SyncRun rows and the invocation *)

NoRun == [status |-> "NONE"]

NewRun ==
  [status |-> "DOWNLOADING", processed |-> 0, failed |-> 0, lastOracleId |-> NULL,
   blobUrl |-> FALSE, errorMessage |-> FALSE, completedAt |-> NULL]

IdleInv(count, result) ==
  [pc |-> "idle", syncRunId |-> NULL, isNew |-> FALSE, resumeFromOracleId |-> NULL,
   processed |-> 0, failed |-> 0, lastOracleId |-> NULL, shouldSkip |-> FALSE,
   batch |-> << >>, rdPos |-> 0, pending |-> << >>, elapsed |-> 0,
   count |-> count, result |-> result]

ExistingRuns == {r \in RunIds : runs[r] # NoRun}

\* upsertCardBatch: one upsertCard per record, a raising upsert counted and skipped
RECURSIVE upsertCardBatch(_, _, _)
upsertCardBatch(c, f, batch) ==
  IF batch = << >> THEN [cards |-> c, faces |-> f, success |-> 0, failures |-> 0]
  ELSE LET p == Head(batch)
           ok == stream[p] = "card"
           st == IF ok THEN upsertCard(c, f, BulkCard(p)) ELSE [cards |-> c, faces |-> f]
           rest == upsertCardBatch(st.cards, st.faces, Tail(batch))
       IN [cards |-> rest.cards, faces |-> rest.faces,
           success |-> rest.success + (IF ok THEN 1 ELSE 0),
           failures |-> rest.failures + (IF ok THEN 0 ELSE 1)]

CountCalls(r, batch) ==
  [calls EXCEPT ![r] = [p \in Positions |->
      calls[r][p] + Cardinality({i \in 1..Len(batch) : batch[i] = p})]]

\* An entry of processSyncRun that never skips
BeginProcessing_NoSkip(id, row, isNew, count) ==
  /\ runs' = [runs EXCEPT ![id] = [row EXCEPT !.status = "PROCESSING"]]
  /\ inv' = [IdleInv(count, inv.result) EXCEPT
               !.pc = "opening", !.syncRunId = id, !.isNew = isNew,
               !.resumeFromOracleId = row.lastOracleId,
               !.processed = row.processed, !.failed = row.failed,
               !.shouldSkip = FALSE]

\* An entry of processSyncRun that counts from zero again
BeginProcessing_FromZero(id, row, isNew, count) ==
  /\ runs' = [runs EXCEPT ![id] = [row EXCEPT !.status = "PROCESSING"]]
  /\ inv' = [IdleInv(count, inv.result) EXCEPT
               !.pc = "opening", !.syncRunId = id, !.isNew = isNew,
               !.resumeFromOracleId = row.lastOracleId,
               !.shouldSkip = (row.lastOracleId # NULL)]

\* processSyncRun up to the stream open: the row becomes PROCESSING and the
\* counters and the resume point are loaded from it
BeginProcessing(id, row, isNew, count) ==
  /\ runs' = [runs EXCEPT ![id] = [row EXCEPT !.status = "PROCESSING"]]
  /\ inv' = [IdleInv(count, inv.result) EXCEPT
               !.pc = "opening", !.syncRunId = id, !.isNew = isNew,
               !.resumeFromOracleId = row.lastOracleId,
               !.processed = row.processed, !.failed = row.failed,
               !.shouldSkip = (row.lastOracleId # NULL)]

Resumable_AnyStatus(row) == row # NoRun /\ row.blobUrl

\* A resume check that only asks for the run to exist
Resumable_IfExists(row) == row # NoRun

\* A resume check that refuses finished runs only when they succeeded
Resumable_UnlessCompleted(row) == row # NoRun /\ row.status \in {"PAUSED", "FAILED"}

\* The checks of the resume branch: the run exists and is PAUSED
Resumable(row) == row # NoRun /\ row.status = "PAUSED"

\* startSync with resumeId
StartSyncResume(resumeId) ==
  /\ inv.pc = "idle"
  /\ inv.count < MaxInvocations
  /\ IF ~Resumable(runs[resumeId])
     THEN /\ inv' = IdleInv(inv.count + 1,
                      [status |-> "ERROR", syncRunId |-> resumeId, processed |-> 0])
          /\ UNCHANGED runs
     ELSE BeginProcessing(resumeId, runs[resumeId], FALSE, inv.count + 1)
  /\ UNCHANGED <<writerVars, log, clientVars>>
  /\ UNCHANGED <<stream, cards, faces, rulings, calls, pauses>>

CompletedRuns == {r \in RunIds : runs[r].status = "COMPLETED"}

\* findFirst({status: 'COMPLETED'}, orderBy completedAt desc)
LastSuccessfulSync ==
  CHOOSE r \in CompletedRuns : \A q \in CompletedRuns : runs[q].completedAt <= runs[r].completedAt

\* A comparison that asks for a completion strictly after the manifest's update
UpToDate_StrictlyNewer(completedAt, updatedAt) == completedAt > updatedAt

\* lastSuccessfulSync.completedAt >= scryfallUpdatedAt
UpToDate(completedAt, updatedAt) == completedAt >= updatedAt

\* startSync without resumeId: the up-to-date check, then the creation of a run.
\* manifestOk, updatedAt: the outcome of the check's getBulkDataUrl.
StartSyncNew(force, manifestOk, updatedAt) ==
  /\ inv.pc = "idle"
  /\ inv.count < MaxInvocations
  /\ IF ~force /\ CompletedRuns # {} /\ ~manifestOk
     THEN /\ inv' = IdleInv(inv.count + 1,
                      [status |-> "ERROR", syncRunId |-> NULL, processed |-> 0])
          /\ UNCHANGED runs
     ELSE IF ~force /\ CompletedRuns # {}
                    /\ UpToDate(runs[LastSuccessfulSync].completedAt, updatedAt)
     THEN /\ inv' = IdleInv(inv.count + 1,
                      [status |-> "COMPLETED", syncRunId |-> LastSuccessfulSync,
                       processed |-> runs[LastSuccessfulSync].processed])
          /\ UNCHANGED runs
     ELSE /\ \E id \in RunIds :
               /\ runs[id] = NoRun
               /\ \A q \in RunIds : q < id => runs[q] # NoRun
               /\ runs' = [runs EXCEPT ![id] = NewRun]
               /\ inv' = [IdleInv(inv.count + 1, inv.result) EXCEPT
                            !.pc = "downloading", !.syncRunId = id, !.isNew = TRUE]
  /\ UNCHANGED <<writerVars, log, clientVars>>
  /\ UNCHANGED <<stream, cards, faces, rulings, calls, pauses>>

\* startSync: getBulkDataUrl succeeded, blobUrl persisted, processSyncRun entered
ManifestFetched ==
  /\ inv.pc = "downloading"
  /\ BeginProcessing(inv.syncRunId, [runs[inv.syncRunId] EXCEPT !.blobUrl = TRUE],
                     TRUE, inv.count)
  /\ UNCHANGED <<writerVars, log, clientVars>>
  /\ UNCHANGED <<stream, cards, faces, rulings, calls, pauses>>

\* startSync: getBulkDataUrl raised; the catch of startSync marks the run FAILED
ManifestFailed ==
  /\ inv.pc = "downloading"
  /\ runs' = [runs EXCEPT ![inv.syncRunId].status = "FAILED",
                          ![inv.syncRunId].errorMessage = TRUE]
  /\ inv' = IdleInv(inv.count, [status |-> "ERROR", syncRunId |-> inv.syncRunId, processed |-> 0])
  /\ UNCHANGED <<writerVars, log, clientVars>>
  /\ UNCHANGED <<stream, cards, faces, rulings, calls, pauses>>

\* A catch that marks the run FAILED and persists nothing else
FailRun_StatusOnly ==
  /\ runs' = [runs EXCEPT ![inv.syncRunId] = [@ EXCEPT !.status = "FAILED"]]
  /\ inv' = IdleInv(inv.count, [status |-> "ERROR", syncRunId |-> inv.syncRunId, processed |-> 0])

\* The catch of processSyncRun (and, for a new run, the catch of startSync after it)
FailRun ==
  /\ runs' = [runs EXCEPT ![inv.syncRunId] =
                [@ EXCEPT !.status = "FAILED", !.errorMessage = TRUE,
                          !.processed = inv.processed, !.failed = inv.failed,
                          !.lastOracleId = inv.lastOracleId]]
  /\ inv' = IdleInv(inv.count, [status |-> "ERROR", syncRunId |-> inv.syncRunId, processed |-> 0])

MAX_RUNTIME_MS == 55000

\* The time a step of processSyncRun may take, ms
Durations == {0, MAX_RUNTIME_MS \div 2, MAX_RUNTIME_MS + 1}

\* Date.now() - startTime after ms more; past the budget every value behaves
\* alike and is kept as the first of them
Elapse(elapsed, ms) == Min(elapsed + ms, MAX_RUNTIME_MS + 1)

\* A budget test that already fires at the budget
OverBudget_AtBudget == inv.elapsed >= MAX_RUNTIME_MS

\* Date.now() - startTime > MAX_RUNTIME_MS
OverBudget == inv.elapsed > MAX_RUNTIME_MS

\* streamBulkData(blobUrl) returned a stream, ms after processSyncRun was entered
StreamOpened(ms) ==
  /\ inv.pc = "opening"
  /\ inv' = [inv EXCEPT !.pc = "loop", !.elapsed = Elapse(@, ms)]
  /\ UNCHANGED <<writerVars, log, clientVars>>
  /\ UNCHANGED <<stream, runs, cards, faces, rulings, calls, pauses>>

StreamOpenFailed ==
  /\ inv.pc = "opening"
  /\ FailRun
  /\ UNCHANGED <<writerVars, log, clientVars>>
  /\ UNCHANGED <<stream, cards, faces, rulings, calls, pauses>>

\* The time box at the top of the loop: PAUSED is persisted and returned
Pause ==
  /\ inv.pc = "loop"
  /\ OverBudget
  /\ runs' = [runs EXCEPT ![inv.syncRunId] =
                [@ EXCEPT !.status = "PAUSED", !.processed = inv.processed,
                          !.failed = inv.failed, !.lastOracleId = inv.lastOracleId]]
  /\ inv' = IdleInv(inv.count, [status |-> "PAUSED", syncRunId |-> inv.syncRunId,
                                processed |-> inv.processed])
  /\ pauses' = [pauses EXCEPT ![inv.syncRunId] = @ + 1]
  /\ UNCHANGED <<writerVars, log, clientVars>>
  /\ UNCHANGED <<stream, cards, faces, rulings, calls>>

\* reader.read() delivered the next k lines; their handling takes ms
ReadChunk(k, ms) ==
  /\ inv.pc = "loop"
  /\ ~OverBudget
  /\ inv.rdPos < StreamLen
  /\ LET last == Min(inv.rdPos + k, StreamLen)
     IN inv' = [inv EXCEPT !.pc = "lines", !.rdPos = last,
                           !.pending = [i \in 1..(last - inv.rdPos) |-> inv.rdPos + i],
                           !.elapsed = Elapse(@, ms)]
  /\ UNCHANGED <<writerVars, log, clientVars>>
  /\ UNCHANGED <<stream, runs, cards, faces, rulings, calls, pauses>>

ReadFailed ==
  /\ inv.pc = "loop"
  /\ ~OverBudget
  /\ FailRun
  /\ UNCHANGED <<writerVars, log, clientVars>>
  /\ UNCHANGED <<stream, cards, faces, rulings, calls, pauses>>

AfterLine(rest) == IF rest = << >> THEN "loop" ELSE "lines"

\* One iteration of `for (const line of lines)`
ProcessLine ==
  /\ inv.pc = "lines"
  /\ LET p == Head(inv.pending)
         rest == Tail(inv.pending)
         kind == stream[p]
         id == BulkCard(p).oracle_id
     IN CASE kind = "skip" ->
               /\ inv' = [inv EXCEPT !.pending = rest, !.pc = AfterLine(rest)]
               /\ UNCHANGED <<cards, faces, calls>>
          [] kind = "bad" ->
               /\ inv' = [inv EXCEPT !.pending = rest, !.pc = AfterLine(rest),
                                     !.failed = @ + 1]
               /\ UNCHANGED <<cards, faces, calls>>
          [] IsRecord(kind) /\ inv.shouldSkip ->
               /\ inv' = [inv EXCEPT !.pending = rest, !.pc = AfterLine(rest),
                                     !.shouldSkip = (id # inv.resumeFromOracleId)]
               /\ UNCHANGED <<cards, faces, calls>>
          [] IsRecord(kind) /\ ~inv.shouldSkip ->
               LET batch == Append(inv.batch, p)
               IN IF Len(batch) >= BATCH_SIZE
                  THEN LET done == upsertCardBatch(cards, faces, batch)
                       IN /\ cards' = done.cards
                          /\ faces' = done.faces
                          /\ calls' = CountCalls(inv.syncRunId, batch)
                          /\ inv' = [inv EXCEPT !.pending = rest, !.pc = "ckpt",
                                                !.lastOracleId = id, !.batch = << >>,
                                                !.processed = @ + done.success,
                                                !.failed = @ + done.failures]
                  ELSE /\ inv' = [inv EXCEPT !.pending = rest, !.pc = AfterLine(rest),
                                             !.lastOracleId = id, !.batch = batch]
                       /\ UNCHANGED <<cards, faces, calls>>
  /\ UNCHANGED <<writerVars, log, clientVars>>
  /\ UNCHANGED <<stream, runs, rulings, pauses>>

\* A checkpoint update that persists the counters and leaves lastOracleId alone
WriteCheckpoint_CountersOnly ==
  /\ inv.pc = "ckpt"
  /\ runs' = [runs EXCEPT ![inv.syncRunId] =
                [@ EXCEPT !.processed = inv.processed, !.failed = inv.failed]]
  /\ inv' = [inv EXCEPT !.pc = AfterLine(inv.pending)]
  /\ UNCHANGED <<writerVars, log, clientVars>>
  /\ UNCHANGED <<stream, cards, faces, rulings, calls, pauses>>

\* The checkpoint update that follows a full batch
WriteCheckpoint ==
  /\ inv.pc = "ckpt"
  /\ runs' = [runs EXCEPT ![inv.syncRunId] =
                [@ EXCEPT !.processed = inv.processed, !.failed = inv.failed,
                          !.lastOracleId = inv.lastOracleId]]
  /\ inv' = [inv EXCEPT !.pc = AfterLine(inv.pending)]
  /\ UNCHANGED <<writerVars, log, clientVars>>
  /\ UNCHANGED <<stream, cards, faces, rulings, calls, pauses>>

\* reader.read() returned done: the partial batch is flushed and the run completed
StreamDone ==
  /\ inv.pc = "loop"
  /\ ~OverBudget
  /\ inv.rdPos = StreamLen
  /\ LET done == upsertCardBatch(cards, faces, inv.batch)
     IN /\ cards' = done.cards
        /\ faces' = done.faces
        /\ calls' = CountCalls(inv.syncRunId, inv.batch)
        /\ runs' = [runs EXCEPT ![inv.syncRunId] =
                      [@ EXCEPT !.status = "COMPLETED",
                                !.processed = inv.processed + done.success,
                                !.failed = inv.failed + done.failures,
                                !.completedAt = inv.count]]
        /\ inv' = IdleInv(inv.count, [status |-> "COMPLETED", syncRunId |-> inv.syncRunId,
                                      processed |-> inv.processed + done.success])
  /\ UNCHANGED <<writerVars, log, clientVars>>
  /\ UNCHANGED <<stream, rulings, pauses>>

\* No sync invocation at work
IdleSync ==
  /\ stream = [p \in Positions |-> "skip"]
  /\ runs = [r \in {} |-> NoRun]
  /\ inv = IdleInv(0, [status |-> "NONE", syncRunId |-> NULL, processed |-> 0])
  /\ calls = [r \in {} |-> 0]
  /\ pauses = [r \in {} |-> 0]

SyncInit ==
  /\ stream \in [Positions -> LineKinds]
  /\ runs = [r \in {1} |-> NoRun]     \* the life of one SyncRun
  /\ inv = IdleInv(0, [status |-> "NONE", syncRunId |-> NULL, processed |-> 0])
  /\ cards = [p \in Positions |-> NoCard]
  /\ faces = [p \in Positions |-> << >>]
  /\ rulings = [p \in Positions |-> << >>]
  /\ calls = [r \in {1} |-> [p \in Positions |-> 0]]
  /\ pauses = [r \in {1} |-> 0]
  /\ IdleWriters
  /\ log = << >>
  /\ IdleClient

SyncNext ==
  \/ \E resumeId \in RunIds : StartSyncResume(resumeId)
  \/ \E force \in BOOLEAN, manifestOk \in BOOLEAN, updatedAt \in 0..MaxInvocations :
       StartSyncNew(force, manifestOk, updatedAt)
  \/ ManifestFetched
  \/ ManifestFailed
  \/ \E ms \in Durations : StreamOpened(ms)
  \/ StreamOpenFailed
  \/ Pause
  \/ \E k \in 1..MaxChunk, ms \in Durations : ReadChunk(k, ms)
  \/ ReadFailed
  \/ ProcessLine
  \/ WriteCheckpoint
  \/ StreamDone

SyncSpec == SyncInit /\ [][SyncNext]_vars

MaxRuns == 2          \* SyncRun rows a behaviour with several runs may create

\* Several runs, one after the other, over a file whose lines are all of one kind
MultiRunInit ==
  /\ \E kind \in LineKinds \ {"skip"} : stream = [p \in Positions |-> kind]
  /\ runs = [r \in 1..MaxRuns |-> NoRun]
  /\ inv = IdleInv(0, [status |-> "NONE", syncRunId |-> NULL, processed |-> 0])
  /\ cards = [p \in Positions |-> NoCard]
  /\ faces = [p \in Positions |-> << >>]
  /\ rulings = [p \in Positions |-> << >>]
  /\ calls = [r \in 1..MaxRuns |-> [p \in Positions |-> 0]]
  /\ pauses = [r \in 1..MaxRuns |-> 0]
  /\ IdleWriters
  /\ log = << >>
  /\ IdleClient

MultiRunSpec == MultiRunInit /\ [][SyncNext]_vars

-----------------------------------------------------------------------------
(* Properties of the sync engine *)

WellFormed(p) == stream[p] = "card"

\* C1 (as claimed): a run that was paused one or more times and resumed until
\* COMPLETED has upserted every well-formed record of the stream into the store.
C1_NoRecordLostAcrossPause ==
  \A r \in RunIds :
    (runs[r].status = "COMPLETED" /\ pauses[r] >= 1)
      => \A p \in Positions : WellFormed(p) => cards[BulkCard(p).oracle_id].present

\* C2 (as claimed): the persisted checkpoint lastOracleId always names a record
\* whose batch the run has already upserted.
C2_CheckpointNeverAhead ==
  \A r \in ExistingRuns :
    runs[r].lastOracleId # NULL => calls[r][runs[r].lastOracleId] >= 1

\* C3 (as claimed): a resumed invocation discards every record up to and including
\* the checkpoint record, and at COMPLETED processed is the number of successful
\* upserts of the run with no record upserted (counted) twice.
C3_ResumeSkipsAndCountsOnce ==
  /\ (inv.pc # "idle" /\ inv.resumeFromOracleId # NULL)
       => \A i \in 1..Len(inv.batch) : inv.batch[i] > inv.resumeFromOracleId
  /\ \A r \in RunIds :
       runs[r].status = "COMPLETED"
         => /\ \A p \in Positions : calls[r][p] <= 1
            /\ runs[r].processed = Cardinality({p \in Positions : WellFormed(p) /\ calls[r][p] >= 1})

\* The status changes the claimed state machine allows
ClaimedTransitions ==
  {<<"NONE", "DOWNLOADING">>, <<"DOWNLOADING", "PROCESSING">>,
   <<"PROCESSING", "PAUSED">>, <<"PROCESSING", "COMPLETED">>,
   <<"PROCESSING", "FAILED">>, <<"PAUSED", "PROCESSING">>}

StatusChangesWithin(allowed) ==
  \A r \in RunIds :
    runs'[r].status # runs[r].status => <<runs[r].status, runs'[r].status>> \in allowed

\* C7 (as claimed): every change of a run's status is creation in DOWNLOADING,
\* DOWNLOADING -> PROCESSING, PROCESSING -> PAUSED | COMPLETED | FAILED, or
\* PAUSED -> PROCESSING.
C7_OnlyClaimedTransitions == [][StatusChangesWithin(ClaimedTransitions)]_vars

\* C7 (amended): the same list plus DOWNLOADING -> FAILED, taken when the manifest
\* fetch of a new run raises; no other status change occurs.
C7_TransitionsWithDownloadFailure ==
  [][StatusChangesWithin(ClaimedTransitions \cup {<<"DOWNLOADING", "FAILED">>})]_vars

\* C7 witness: a run that failed while DOWNLOADING (no blob URL was ever persisted)
\* next to the invocation that reported the failure.
C7_Witness ==
  \E r \in RunIds :
    /\ runs[r].status = "FAILED"
    /\ ~runs[r].blobUrl
    /\ inv.result = [status |-> "ERROR", syncRunId |-> r, processed |-> 0]

\* A resumed invocation is about to handle the line of a parsed record
ResumedAtRecord ==
  /\ inv.pc = "lines"
  /\ inv.resumeFromOracleId # NULL
  /\ IsRecord(stream[Head(inv.pending)])

\* The step adds record p to the batch (which it may upsert at once)
Pushed(p) ==
  \/ inv'.pc # "idle" /\ \E i \in 1..Len(inv'.batch) : inv'.batch[i] = p
  \/ calls'[inv.syncRunId][p] > calls[inv.syncRunId][p]

\* C13 (as claimed): on resume the record whose id equals the checkpoint is
\* processed normally (added to the batch), as are all records after it; only the
\* records before it are discarded.
C13_CheckpointRecordProcessed ==
  [][ResumedAtRecord =>
       LET id == BulkCard(Head(inv.pending)).oracle_id
       IN Pushed(Head(inv.pending)) <=> id >= inv.resumeFromOracleId]_vars

\* C13 (amended): on resume over the same file the record whose id equals the
\* checkpoint is discarded like the records before it; the records after it are
\* added to the batch.
C13_CheckpointRecordDiscarded ==
  [][ResumedAtRecord =>
       LET id == BulkCard(Head(inv.pending)).oracle_id
       IN Pushed(Head(inv.pending)) <=> id > inv.resumeFromOracleId]_vars

\* C13 witness: a resumed invocation has passed its checkpoint record and holds
\* a later record in its batch
C13_Witness ==
  /\ inv.pc \in {"lines", "loop"}
  /\ inv.resumeFromOracleId # NULL
  /\ ~inv.shouldSkip
  /\ inv.batch # << >>
  /\ \A i \in 1..Len(inv.batch) : inv.batch[i] > inv.resumeFromOracleId

\* The lines that fail as single records: JSON.parse raises, or the upsert raises
FailingRecords == {p \in Positions : stream[p] \in {"bad", "rej"}}

\* C14: a per-record failure adds exactly one to failed and neither aborts the run
\* nor moves it to FAILED: while lines are handled the run stays PROCESSING, and a
\* run that reaches COMPLETED has failed equal to the number of failing records
\* and has upserted every other record.
C14_PerRecordFailuresIsolated ==
  /\ inv.pc \in {"lines", "ckpt"} => runs[inv.syncRunId].status = "PROCESSING"
  /\ \A r \in RunIds :
       runs[r].status = "COMPLETED"
         => /\ runs[r].failed = Cardinality(FailingRecords)
            /\ \A p \in Positions : WellFormed(p) => cards[BulkCard(p).oracle_id].present

\* The step moves run r to FAILED
BecomesFailed(r) == runs[r].status # "FAILED" /\ runs'[r].status = "FAILED"

\* The step ends the invocation with the error re-raised to the caller of startSync
Reraised ==
  /\ inv'.pc = "idle"
  /\ inv'.result = [status |-> "ERROR", syncRunId |-> inv.syncRunId, processed |-> 0]

\* The step persists the invocation's current processed, failed and lastOracleId
PersistsCurrent(r) ==
  /\ runs'[r].processed = inv.processed
  /\ runs'[r].failed = inv.failed
  /\ runs'[r].lastOracleId = inv.lastOracleId

\* An invocation that is processing (stream open or chunk read) ends in an error
ProcessingRaises == inv.pc \in {"opening", "loop"} /\ Reraised

\* C15 (as claimed): a stream-level failure during processing (the stream open or
\* a chunk read raises) sets the run FAILED, persists the error message with the
\* current processed, failed and lastOracleId, and re-raises; only such failures
\* move a run to FAILED.
C15_OnlyStreamFailuresFail ==
  [][/\ ProcessingRaises => BecomesFailed(inv.syncRunId)
     /\ \A r \in RunIds :
          BecomesFailed(r)
            => /\ inv.syncRunId = r
               /\ inv.pc \in {"opening", "loop"}
               /\ runs'[r].errorMessage
               /\ PersistsCurrent(r)
               /\ Reraised]_vars

\* C15 (amended): the same, and a new run whose manifest fetch raises before
\* processing begins is also moved to FAILED, with the error message alone
\* persisted and the error re-raised; a per-record failure never moves a run to
\* FAILED.
C15_StreamOrManifestFailuresFail ==
  [][/\ ProcessingRaises => BecomesFailed(inv.syncRunId)
     /\ \A r \in RunIds :
          BecomesFailed(r)
            => /\ inv.syncRunId = r
               /\ inv.pc \in {"opening", "loop", "downloading"}
               /\ runs'[r].errorMessage
               /\ inv.pc \in {"opening", "loop"} => PersistsCurrent(r)
               /\ inv.pc = "downloading"
                    => /\ runs[r].status = "DOWNLOADING"
                       /\ runs'[r] = [runs[r] EXCEPT !.status = "FAILED", !.errorMessage = TRUE]
               /\ Reraised]_vars

\* C15 witness: a run that failed at a chunk read after it had committed a batch,
\* the error reported to the caller
C15_Witness ==
  \E r \in RunIds :
    /\ runs[r].status = "FAILED"
    /\ runs[r].blobUrl
    /\ runs[r].errorMessage
    /\ runs[r].processed > 0
    /\ inv.pc = "idle"
    /\ inv.result = [status |-> "ERROR", syncRunId |-> r, processed |-> 0]

\* The step moves run r to PAUSED
BecomesPaused(r) == runs[r].status # "PAUSED" /\ runs'[r].status = "PAUSED"

\* The step is a chunk read: the loop goes on to the lines of a new chunk
ReadsChunk == inv.pc = "loop" /\ inv'.pc = "lines"

\* C16: the elapsed time is tested before each chunk read; once it exceeds
\* MAX_RUNTIME_MS at the test, the run becomes PAUSED with the current processed,
\* failed and lastOracleId persisted, no further chunk is read and startSync
\* returns status PAUSED; a run pauses in no other way.
C16_TimeBoxPauses ==
  [][/\ (inv.pc = "loop" /\ inv.elapsed > MAX_RUNTIME_MS)
          => /\ BecomesPaused(inv.syncRunId)
             /\ PersistsCurrent(inv.syncRunId)
             /\ inv'.pc = "idle"
             /\ inv'.result = [status |-> "PAUSED", syncRunId |-> inv.syncRunId, processed |-> inv.processed]
             /\ UNCHANGED <<cards, faces, calls>>
     /\ ReadsChunk => inv.elapsed <= MAX_RUNTIME_MS
     /\ \A r \in RunIds :
          BecomesPaused(r)
            => /\ inv.syncRunId = r
               /\ inv.pc = "loop"
               /\ inv.elapsed > MAX_RUNTIME_MS]_vars

\* C16 witness: a run paused after it had committed a batch, PAUSED returned to
\* the caller
C16_Witness ==
  \E r \in RunIds :
    /\ runs[r].status = "PAUSED"
    /\ runs[r].processed > 0
    /\ inv.pc = "idle"
    /\ inv.result = [status |-> "PAUSED", syncRunId |-> r, processed |-> runs[r].processed]

\* The records of the batch once the record of the current line is added
BatchWith(p) == {inv.batch[i] : i \in 1..Len(inv.batch)} \cup {p}

\* The line being handled is a record that is added to the batch and fills it
FillsBatch ==
  /\ inv.pc = "lines"
  /\ IsRecord(stream[Head(inv.pending)])
  /\ ~inv.shouldSkip
  /\ Len(inv.batch) + 1 >= BATCH_SIZE

\* C17: each time the batch reaches BATCH_SIZE records it is upserted, and then
\* the run's persisted processed, failed and lastOracleId are updated, lastOracleId
\* being the id of the last record of that batch; the checkpoint write follows the
\* batch's upserts and precedes every upsert of the next batch.
C17_CheckpointAfterEachFullBatch ==
  [][/\ FillsBatch
          => /\ inv'.pc = "ckpt"
             /\ inv'.batch = << >>
             /\ inv'.lastOracleId = BulkCard(Head(inv.pending)).oracle_id
             /\ \A q \in Positions :
                  calls'[inv.syncRunId][q] = calls[inv.syncRunId][q]
                    + (IF q \in BatchWith(Head(inv.pending)) THEN 1 ELSE 0)
             /\ \A q \in BatchWith(Head(inv.pending)) : q <= Head(inv.pending)
     /\ (inv.pc = "lines" /\ calls' # calls) => FillsBatch
     /\ inv.pc = "ckpt"
          => /\ runs' = [runs EXCEPT ![inv.syncRunId] =
                           [@ EXCEPT !.processed = inv.processed, !.failed = inv.failed,
                                     !.lastOracleId = inv.lastOracleId]]
             /\ inv'.pc \in {"lines", "loop"}
             /\ UNCHANGED <<cards, faces, calls>>]_vars

\* C17 witness: the checkpoint of a full batch has been written; it names the
\* last record upserted and the invocation goes on
C17_Witness ==
  /\ inv.pc \in {"lines", "loop"}
  /\ runs[inv.syncRunId].status = "PROCESSING"
  /\ runs[inv.syncRunId].lastOracleId # NULL
  /\ runs[inv.syncRunId].lastOracleId = inv.lastOracleId
  /\ inv.batch = << >>
  /\ calls[inv.syncRunId][inv.lastOracleId] >= 1
  /\ \A q \in Positions : q > inv.lastOracleId => calls[inv.syncRunId][q] = 0

\* C18: startSync with a resumeId that names no run, or a run that is not PAUSED,
\* ends in an error at once: no processing and no request is made, and every
\* SyncRun row and the card store are left as they were.
C18_InvalidResumeRejected ==
  [][\A resumeId \in RunIds :
       (/\ StartSyncResume(resumeId)
        /\ (runs[resumeId] = NoRun \/ runs[resumeId].status # "PAUSED"))
         => /\ inv'.pc = "idle"
            /\ inv'.result.status = "ERROR"
            /\ UNCHANGED <<runs, cards, faces, rulings, calls, pauses>>]_vars

\* C18 witness: the resume of a COMPLETED run has just been refused
C18_Witness ==
  \E r \in RunIds :
    /\ runs[r].status = "COMPLETED"
    /\ inv.pc = "idle"
    /\ inv.result = [status |-> "ERROR", syncRunId |-> r, processed |-> 0]

\* The COMPLETED runs whose completion is at or after the manifest's update
FreshRuns(updatedAt) == {r \in CompletedRuns : runs[r].completedAt >= updatedAt}

\* The call answers with the summary of a COMPLETED run that is fresh for
\* updatedAt, creates no run and opens no stream
ReturnsExisting(updatedAt) ==
  /\ runs' = runs
  /\ inv'.pc = "idle"
  /\ \E r \in FreshRuns(updatedAt) :
       inv'.result = [status |-> "COMPLETED", syncRunId |-> r,
                      processed |-> runs[r].processed]

\* The call creates a SyncRun row and goes on to the download
CreatesRun ==
  /\ inv'.pc = "downloading"
  /\ runs[inv'.syncRunId] = NoRun
  /\ runs' = [runs EXCEPT ![inv'.syncRunId] = NewRun]

\* C19: an unforced startSync without resumeId, when a COMPLETED run exists whose
\* completion time is at or after the manifest's updated_at, returns that run's
\* id, status COMPLETED and processed count, creates no SyncRun and opens no
\* stream; a forced one skips the comparison and always creates a SyncRun.
C19_UpToDateReturnsExistingRun ==
  [][/\ \A updatedAt \in 0..MaxInvocations :
          StartSyncNew(FALSE, TRUE, updatedAt) /\ FreshRuns(updatedAt) # {}
            => ReturnsExisting(updatedAt)
     /\ \A manifestOk \in BOOLEAN, updatedAt \in 0..MaxInvocations :
          StartSyncNew(TRUE, manifestOk, updatedAt) => CreatesRun]_vars

\* C19 witness: a later call has been answered with the summary of a run that
\* an earlier call completed
C19_Witness ==
  /\ inv.pc = "idle"
  /\ inv.result.status = "COMPLETED"
  /\ runs[inv.result.syncRunId].status = "COMPLETED"
  /\ runs[inv.result.syncRunId].completedAt < inv.count
  /\ inv.result.processed = runs[inv.result.syncRunId].processed
  /\ \E r \in RunIds : runs[r] = NoRun

Terminal(row) == row # NoRun /\ row.status \in {"COMPLETED", "FAILED"}

\* The status, the counters and the checkpoint of a SyncRun row
Progress(row) ==
  [status |-> row.status, processed |-> row.processed, failed |-> row.failed,
   lastOracleId |-> row.lastOracleId]

\* C20: COMPLETED and FAILED are terminal: once a run's persisted status is
\* COMPLETED or FAILED, no step of a later startSync call, with or without
\* that run's id as resumeId, changes its status, counters or checkpoint.
C20_TerminalRunsNeverChange ==
  [][\A r \in RunIds :
       Terminal(runs[r]) => Terminal(runs'[r]) /\ Progress(runs'[r]) = Progress(runs[r])]_vars

\* C20 witness: the first call completed a run; a later call created another
\* row and the last call asked to resume the completed run
C20_Witness ==
  \E r, q \in RunIds :
    /\ r # q
    /\ runs[r].status = "COMPLETED" /\ runs[r].completedAt = 1
    /\ runs[q] # NoRun
    /\ inv.count = MaxInvocations
    /\ inv.pc = "idle"
    /\ inv.result = [status |-> "ERROR", syncRunId |-> r, processed |-> 0]

\* reader.read() reports the end of the stream within the time budget
AtStreamEnd ==
  /\ inv.pc = "loop" /\ inv.rdPos = StreamLen /\ ~OverBudget
  /\ runs'[inv.syncRunId].status # "FAILED"

\* The step upserts every record of the partial batch, counts each of them and
\* completes the run with a completion time
FlushesAndCompletes ==
  LET r == inv.syncRunId
  IN /\ calls' = CountCalls(r, inv.batch)
     /\ runs'[r].processed + runs'[r].failed = inv.processed + inv.failed + Len(inv.batch)
     /\ runs'[r].status = "COMPLETED"
     /\ runs'[r].completedAt # NULL

\* The record lines of the file. A run that completes has added each of them to
\* a batch: an invocation skips only the records up to its checkpoint, and the
\* checkpoint is a record that an earlier invocation added to its batch.
AcceptedRecords == {p \in Positions : IsRecord(stream[p])}

\* C21 (as claimed): when the stream ends before the time budget is exceeded, a
\* non-empty partial batch is upserted and counted and the run becomes COMPLETED
\* with completedAt set; and a run is never COMPLETED while a record that it
\* accepted into its batch has not been handed to an upsert.
C21_CompletedRunsFlushedEveryBatch ==
  /\ [][AtStreamEnd => FlushesAndCompletes]_vars
  /\ [](\A r \in RunIds :
          runs[r].status = "COMPLETED" => \A p \in AcceptedRecords : calls[r][p] >= 1)

\* C33: a SyncRun's persisted processed and failed counters never decrease
\* over the life of the run, across batch commits, pauses, resumes and failure.
C33_CountersNeverDecrease ==
  [][\A r \in RunIds :
       runs[r] # NoRun
         => /\ runs'[r] # NoRun
            /\ runs'[r].processed >= runs[r].processed
            /\ runs'[r].failed >= runs[r].failed]_vars

\* C33 witness: a run that was paused with records counted, resumed, and ended
\* (COMPLETED or FAILED) with both counters above zero
C33_Witness ==
  \E r \in RunIds :
    /\ runs[r].status \in {"COMPLETED", "FAILED"}
    /\ pauses[r] >= 1
    /\ runs[r].processed >= 2
    /\ runs[r].failed >= 1

\* C38: a failure is counted once per record: after a pause and a resume to
\* completion, failed equals the number of distinct records of the stream that
\* failed parsing or upsert; malformed lines of the prefix re-read and skipped
\* on resume are not counted again.
C38_FailuresCountedOncePerRecord ==
  \A r \in RunIds :
    (runs[r].status = "COMPLETED" /\ pauses[r] >= 1)
      => /\ runs[r].failed <= Cardinality(FailingRecords)
         /\ runs[r].failed = Cardinality(FailingRecords)

\* C34: across pauses, resumes and failures, a run's persisted lastOracleId
\* never reverts to null once it has been set and never moves to a record earlier
\* in the stream than the checkpoint persisted before (record ids are stream
\* positions), also when a resumed invocation pauses or fails before it has
\* accepted a record past the resume point.
C34_CheckpointNeverReverts ==
  [][\A r \in RunIds :
       (runs[r] # NoRun /\ runs[r].lastOracleId # NULL)
         => /\ runs'[r].lastOracleId # NULL
            /\ runs'[r].lastOracleId >= runs[r].lastOracleId]_vars

-----------------------------------------------------------------------------
(* A run re-invoked each time it is PAUSED, on a finite error-free stream.
   The counters, which no guard reads, are left out: the run keeps its status
   and its checkpoint, the invocation its position, its batch and the number
   of chunks it has read and the previous invocation read. *)

\* The lines of an error-free file: records that upsert, and blank or bracket-only lines
CleanKinds == {"card", "skip"}

\* The lines first..last handled by `for (const line of lines)`: skip up to the
\* resume point, push, and at BATCH_SIZE flush and persist the checkpoint
RECURSIVE HandleLines(_, _, _)
HandleLines(st, first, last) ==
  IF first > last THEN st
  ELSE LET next ==
             IF stream[first] = "skip" THEN st
             ELSE IF st.shouldSkip
                  THEN [st EXCEPT !.shouldSkip = (first # st.resumeFromOracleId)]
                  ELSE IF st.batch + 1 >= BATCH_SIZE
                       THEN [st EXCEPT !.batch = 0, !.lastOracleId = first, !.saved = first]
                       ELSE [st EXCEPT !.batch = @ + 1, !.lastOracleId = first]
       IN HandleLines(next, first + 1, last)

LiveInv(row, prevChunks) ==
  [pc |-> "loop", syncRunId |-> 1, resumeFromOracleId |-> row.lastOracleId,
   shouldSkip |-> (row.lastOracleId # NULL), lastOracleId |-> NULL, batch |-> 0,
   rdPos |-> 0, chunks |-> 0, prevChunks |-> prevChunks]

\* The first invocation of a new run has opened the stream
LiveInit ==
  /\ stream \in [Positions -> CleanKinds]
  /\ runs = [r \in {1} |-> [status |-> "PROCESSING", lastOracleId |-> NULL]]
  /\ inv = LiveInv(runs[1], 0)
  /\ cards = [p \in {} |-> NoCard]
  /\ faces = [p \in {} |-> << >>]
  /\ rulings = [p \in {} |-> << >>]
  /\ calls = [r \in {} |-> 0]
  /\ pauses = [r \in {} |-> 0]
  /\ IdleWriters
  /\ log = << >>
  /\ IdleClient

\* The caller's startSync(resumeId) on the PAUSED run, up to the loop
LiveResume ==
  /\ inv.pc = "idle"
  /\ Resumable([runs[1] EXCEPT !.blobUrl = TRUE])
  /\ runs' = [runs EXCEPT ![1].status = "PROCESSING"]
  /\ inv' = LiveInv(runs[1], inv.chunks)
  /\ UNCHANGED <<stream, storeVars, calls, pauses, writerVars, log, clientVars>>

\* The time box: an invocation's budget lasts for one read at least, and a
\* resumed invocation's for at least as many reads as the previous one made
LivePause ==
  /\ inv.pc = "loop"
  /\ inv.chunks >= 1 /\ inv.chunks >= inv.prevChunks
  /\ runs' = [runs EXCEPT ![1].status = "PAUSED", ![1].lastOracleId = inv.lastOracleId]
  /\ inv' = [inv EXCEPT !.pc = "idle"]
  /\ UNCHANGED <<stream, storeVars, calls, pauses, writerVars, log, clientVars>>

\* reader.read() delivered the next k lines and the loop over them ran
LiveRead(k) ==
  /\ inv.pc = "loop"
  /\ inv.rdPos < StreamLen
  /\ LET last == Min(inv.rdPos + k, StreamLen)
         st == HandleLines([shouldSkip |-> inv.shouldSkip,
                            resumeFromOracleId |-> inv.resumeFromOracleId,
                            lastOracleId |-> inv.lastOracleId, batch |-> inv.batch,
                            saved |-> runs[1].lastOracleId], inv.rdPos + 1, last)
     IN /\ inv' = [inv EXCEPT !.rdPos = last, !.chunks = @ + 1,
                              !.shouldSkip = st.shouldSkip,
                              !.lastOracleId = st.lastOracleId, !.batch = st.batch]
        /\ runs' = [runs EXCEPT ![1].lastOracleId = st.saved]
  /\ UNCHANGED <<stream, storeVars, calls, pauses, writerVars, log, clientVars>>

\* reader.read() returned done: the last batch is flushed, COMPLETED is written
LiveDone ==
  /\ inv.pc = "loop"
  /\ inv.rdPos = StreamLen
  /\ runs' = [runs EXCEPT ![1].status = "COMPLETED"]
  /\ inv' = [inv EXCEPT !.pc = "idle", !.batch = 0]
  /\ UNCHANGED <<stream, storeVars, calls, pauses, writerVars, log, clientVars>>

LiveNext ==
  \/ LiveResume
  \/ LivePause
  \/ \E k \in 1..MaxChunk : LiveRead(k)
  \/ LiveDone

\* The caller re-invokes a PAUSED run, and a running invocation goes on
ResumeLiveSpec ==
  /\ LiveInit
  /\ [][LiveNext]_vars
  /\ WF_vars(LiveResume)
  /\ WF_vars(LivePause \/ LiveDone \/ \E k \in 1..MaxChunk : LiveRead(k))

\* C35: if the stream is finite and error-free and the caller re-invokes
\* startSync with resumeId each time the run is PAUSED, the run eventually
\* reaches COMPLETED, because every resumed invocation that reads at least as
\* many chunks as the previous one moves the checkpoint strictly forward.
C35_ResumedRunCompletes ==
  /\ <>(runs[1].status = "COMPLETED")
  /\ [][(LivePause /\ inv.resumeFromOracleId # NULL)
          => runs'[1].lastOracleId > inv.resumeFromOracleId]_vars

-----------------------------------------------------------------------------
(* The carry-over buffer: one invocation of a new run, from the open stream to
   COMPLETED, the file delivered in chunks that end anywhere *)

MaxChunkLen == 3     \* most characters one reader.read() delivers

\* The characters of the file: the newline, and the pieces of line p (a record
\* line is two pieces long, a bracket-only line one)
NewLine == [line |-> 0, part |-> 0]

LineText(p) ==
  IF stream[p] = "skip" THEN <<[line |-> p, part |-> 0]>>
  ELSE <<[line |-> p, part |-> 1], [line |-> p, part |-> 2]>>

\* The file from line p on: the lines joined by newlines, the last one ending
\* with a newline or not
RECURSIVE FileText(_, _)
FileText(p, newlineAtEnd) ==
  IF p = StreamLen THEN LineText(p) \o (IF newlineAtEnd THEN <<NewLine>> ELSE << >>)
  ELSE LineText(p) \o <<NewLine>> \o FileText(p + 1, newlineAtEnd)

\* buffer.split('\n')
RECURSIVE SplitLinesFrom(_, _)
SplitLinesFrom(s, acc) ==
  IF s = << >> THEN <<acc>>
  ELSE IF Head(s) = NewLine THEN <<acc>> \o SplitLinesFrom(Tail(s), << >>)
       ELSE SplitLinesFrom(Tail(s), Append(acc, Head(s)))

SplitLines(s) == SplitLinesFrom(s, << >>)

\* What the loop body makes of a line: nothing of a blank or bracket-only one,
\* a record of the text of a record line, a parse error of anything else
LineKind(line) ==
  IF line = << >> THEN "skip"
  ELSE IF line = LineText(line[1].line) THEN stream[line[1].line]
       ELSE "bad"

\* `for (const line of lines)` of a first invocation (nothing to skip)
RECURSIVE HandleTextLines(_, _)
HandleTextLines(st, lines) ==
  IF lines = << >> THEN st
  ELSE LET kind == LineKind(Head(lines))
           batch == Append(st.batch, Head(lines)[1].line)
           up == upsertCardBatch(st.cards, st.faces, batch)
           next ==
             IF kind = "skip" THEN st
             ELSE IF kind = "bad" THEN [st EXCEPT !.failed = @ + 1]
             ELSE IF Len(batch) >= BATCH_SIZE
                  THEN [st EXCEPT !.batch = << >>, !.cards = up.cards, !.faces = up.faces,
                                  !.processed = @ + up.success, !.failed = @ + up.failures,
                                  !.saved = [@ EXCEPT !.processed = st.processed + up.success,
                                                      !.failed = st.failed + up.failures,
                                                      !.lastOracleId = Head(lines)[1].line]]
                  ELSE [st EXCEPT !.batch = batch]
       IN HandleTextLines(next, Tail(lines))

\* The remainder of the buffer is handled as a last line when the stream ends
BufferRest_Handled(buffer) == <<buffer>>

\* The lines handled when reader.read() returns done: none, the buffer is left
BufferRest(buffer) == << >>

BufferInit ==
  /\ stream \in [Positions -> LineKinds]
  /\ runs = [r \in {1} |-> [NewRun EXCEPT !.status = "PROCESSING", !.blobUrl = TRUE]]
  /\ \E newlineAtEnd \in BOOLEAN :
       inv = [pc |-> "loop", text |-> FileText(1, newlineAtEnd), rdPos |-> 0, buffer |-> << >>,
              batch |-> << >>, processed |-> 0, failed |-> 0]
  /\ cards = [p \in Positions |-> NoCard]
  /\ faces = [p \in Positions |-> << >>]
  /\ rulings = [p \in Positions |-> << >>]
  /\ calls = [r \in {} |-> 0]
  /\ pauses = [r \in {} |-> 0]
  /\ IdleWriters
  /\ log = << >>
  /\ IdleClient

\* reader.read() delivered the next k characters: buffer, split, pop, line loop
BufferRead(k) ==
  /\ inv.pc = "loop"
  /\ inv.rdPos < Len(inv.text)
  /\ LET last == Min(inv.rdPos + k, Len(inv.text))
         lines == SplitLines(inv.buffer \o SubSeq(inv.text, inv.rdPos + 1, last))
         st == HandleTextLines([batch |-> inv.batch, processed |-> inv.processed,
                                failed |-> inv.failed, cards |-> cards, faces |-> faces,
                                saved |-> runs[1]],
                               SubSeq(lines, 1, Len(lines) - 1))
     IN /\ inv' = [inv EXCEPT !.rdPos = last, !.buffer = lines[Len(lines)],
                              !.batch = st.batch, !.processed = st.processed,
                              !.failed = st.failed]
        /\ cards' = st.cards
        /\ faces' = st.faces
        /\ runs' = [runs EXCEPT ![1] = st.saved]
  /\ UNCHANGED <<stream, rulings, calls, pauses, writerVars, log, clientVars>>

\* reader.read() returned done: the last batch is upserted, COMPLETED is written
BufferDone ==
  /\ inv.pc = "loop"
  /\ inv.rdPos = Len(inv.text)
  /\ LET rest == HandleTextLines([batch |-> inv.batch, processed |-> inv.processed,
                                  failed |-> inv.failed, cards |-> cards, faces |-> faces,
                                  saved |-> runs[1]],
                                 BufferRest(inv.buffer))
         up == upsertCardBatch(rest.cards, rest.faces, rest.batch)
     IN /\ cards' = up.cards
        /\ faces' = up.faces
        /\ inv' = [inv EXCEPT !.pc = "idle", !.batch = << >>,
                              !.processed = rest.processed + up.success,
                              !.failed = rest.failed + up.failures]
        /\ runs' = [runs EXCEPT ![1] =
                      [rest.saved EXCEPT !.status = "COMPLETED",
                                         !.processed = rest.processed + up.success,
                                         !.failed = rest.failed + up.failures,
                                         !.completedAt = 1]]
  /\ UNCHANGED <<stream, rulings, calls, pauses, writerVars, log, clientVars>>

BufferNext ==
  \/ \E k \in 1..MaxChunkLen : BufferRead(k)
  \/ BufferDone

BufferSpec == BufferInit /\ [][BufferNext]_vars

\* C36: for a run that completes without pausing, processed + failed equals
\* the number of record lines of the stream (the lines other than blank and
\* bracket-only ones) and every well-formed record line is upserted, whatever
\* the chunk boundaries and whether or not the last line ends with a newline.
C36_EveryRecordLineCounted ==
  runs[1].status = "COMPLETED"
    => /\ runs[1].processed + runs[1].failed
            = Cardinality({p \in Positions : stream[p] # "skip"})
       /\ \A p \in Positions : stream[p] = "card" => cards[p].present

-----------------------------------------------------------------------------
(* Store writers and readers, one database statement per step *)

MaxFaces == 2      \* most faces of an upserted record
MaxRulings == 2    \* most rulings of one replacement

FaceNames == {<<"b">>, <<"A", "c">>}
Comments == {"r1", "r2"}

SeqsUpTo(S, n) == UNION {[1..k -> S] : k \in 0..n}

\* The records an upsert can be given for the entities of the store
CardInputs ==
  [oracle_id : DOMAIN cards, name : {<<"A", "b">>}, card_faces : SeqsUpTo(FaceNames, MaxFaces)]

\* The ruling lists a replacement can be given (upsertRulings is called with length > 0)
RulingInputs == SeqsUpTo(Comments, MaxRulings) \ { << >> }

NoRec == [oracle_id |-> NULL, name |-> << >>, card_faces |-> << >>]

IdleWriter ==
  [pc |-> "idle", op |-> "none", rec |-> NoRec, id |-> NULL,
   new |-> << >>, old |-> << >>, i |-> 0]

\* db.ruling.create
RulingRow(comment) == [comment |-> comment]

RulingRows(rl) == [k \in 1..Len(rl) |-> RulingRow(rl[k])]

NotSeen == [seen |-> FALSE]

\* upsertCard / upsertCardFromScryfall: db.card.upsert
UpsertCardBegin(w, op, rec) ==
  /\ writer[w].pc = "idle"
  /\ ~observed.seen
  /\ cards' = [cards EXCEPT ![rec.oracle_id] = CardRow(rec)]
  /\ writer' = [writer EXCEPT ![w] =
                  [IdleWriter EXCEPT !.pc = IF HasFaces(rec) THEN "deleteFaces" ELSE "done",
                                     !.op = op, !.rec = rec, !.id = rec.oracle_id,
                                     !.old = faces[rec.oracle_id]]]
  /\ UNCHANGED <<syncVars, faces, rulings, observed, log, clientVars>>

\* db.cardFace.deleteMany({cardId})
DeleteFaces(w) ==
  /\ writer[w].pc = "deleteFaces"
  /\ ~observed.seen
  /\ faces' = [faces EXCEPT ![writer[w].id] = << >>]
  /\ writer' = [writer EXCEPT ![w].pc = "createFace", ![w].i = 0]
  /\ UNCHANGED <<syncVars, cards, rulings, observed, log, clientVars>>

\* db.cardFace.create for face i
CreateFace(w) ==
  /\ writer[w].pc = "createFace"
  /\ ~observed.seen
  /\ faces' = [faces EXCEPT ![writer[w].id] = Append(@, FaceRow(writer[w].rec, writer[w].i))]
  /\ writer' = [writer EXCEPT
                  ![w].i = @ + 1,
                  ![w].pc = IF writer[w].i + 1 = Len(writer[w].rec.card_faces)
                            THEN "done" ELSE "createFace"]
  /\ UNCHANGED <<syncVars, cards, rulings, observed, log, clientVars>>

\* upsertRulings / syncRulings for one oracle id: db.ruling.deleteMany({oracleId})
UpsertRulingsBegin(w, op, oracleId, rl) ==
  /\ writer[w].pc = "idle"
  /\ ~observed.seen
  /\ cards[oracleId].present
  /\ rulings' = [rulings EXCEPT ![oracleId] = << >>]
  /\ writer' = [writer EXCEPT ![w] =
                  [IdleWriter EXCEPT !.pc = "createRuling", !.op = op, !.id = oracleId,
                                     !.new = rl, !.old = rulings[oracleId]]]
  /\ UNCHANGED <<syncVars, cards, faces, observed, log, clientVars>>

\* db.ruling.create for ruling i
CreateRuling(w) ==
  /\ writer[w].pc = "createRuling"
  /\ ~observed.seen
  /\ rulings' = [rulings EXCEPT ![writer[w].id] =
                   Append(@, RulingRow(writer[w].new[writer[w].i + 1]))]
  /\ writer' = [writer EXCEPT
                  ![w].i = @ + 1,
                  ![w].pc = IF writer[w].i + 1 = Len(writer[w].new)
                            THEN "done" ELSE "createRuling"]
  /\ UNCHANGED <<syncVars, cards, faces, observed, log, clientVars>>

\* The next database statement of the writer raises: the function is left
WriterFails(w) ==
  /\ writer[w].pc \in {"deleteFaces", "createFace", "createRuling"}
  /\ ~observed.seen
  /\ writer' = [writer EXCEPT ![w].pc = "failed"]
  /\ UNCHANGED <<syncVars, storeVars, observed, log, clientVars>>

WriterReturns(w) ==
  /\ writer[w].pc \in {"done", "failed"}
  /\ ~observed.seen
  /\ writer' = [writer EXCEPT ![w] = IdleWriter]
  /\ UNCHANGED <<syncVars, storeVars, observed, log, clientVars>>

\* A reader's query of one entity with its relations (include: faces, rulings)
ReadCard(oracleId) ==
  /\ ~observed.seen
  /\ cards[oracleId].present
  /\ observed' = [seen |-> TRUE, id |-> oracleId,
                  faces |-> faces[oracleId], rulings |-> rulings[oracleId]]
  /\ UNCHANGED <<syncVars, storeVars, writer, log, clientVars>>

ReaderReturns ==
  /\ observed.seen
  /\ observed' = NotSeen
  /\ UNCHANGED <<syncVars, storeVars, writer, log, clientVars>>

StoreInit ==
  /\ IdleSync
  /\ cards = [i \in {1} |-> NoCard]     \* one entity
  /\ faces = [i \in {1} |-> << >>]
  /\ rulings = [i \in {1} |-> << >>]
  /\ writer = [w \in {1} |-> IdleWriter]
  /\ observed = NotSeen
  /\ log = << >>
  /\ IdleClient

StoreNext ==
  \/ \E w \in DOMAIN writer, op \in {"upsertCard", "upsertCardFromScryfall"},
        rec \in CardInputs : UpsertCardBegin(w, op, rec)
  \/ \E w \in DOMAIN writer : DeleteFaces(w)
  \/ \E w \in DOMAIN writer : CreateFace(w)
  \/ \E w \in DOMAIN writer, op \in {"upsertRulings", "syncRulings"},
        oracleId \in DOMAIN cards, rl \in RulingInputs : UpsertRulingsBegin(w, op, oracleId, rl)
  \/ \E w \in DOMAIN writer : CreateRuling(w)
  \/ \E w \in DOMAIN writer : WriterFails(w)
  \/ \E w \in DOMAIN writer : WriterReturns(w)
  \/ \E oracleId \in DOMAIN cards : ReadCard(oracleId)
  \/ ReaderReturns

StoreSpec == StoreInit /\ [][StoreNext]_vars

IsCardUpsert(op) == op \in {"upsertCard", "upsertCardFromScryfall"}
IsRulingsUpsert(op) == op \in {"upsertRulings", "syncRulings"}

\* C8 (as claimed): when an upsert of a record has completed, the stored faces of
\* the entity are exactly the record's faces, indexed 0..n-1 in the record's
\* order, whatever the number of faces of the record.
C8_FacesReplacedAsSet ==
  \A w \in DOMAIN writer :
    (writer[w].pc = "done" /\ IsCardUpsert(writer[w].op))
      => faces[writer[w].id] = NewFaceRows(writer[w].rec)

\* C9 (as claimed): while a ruling set is being replaced, and after a replacement
\* that failed part-way, a reader of the entity sees the complete old set or the
\* complete new set, and the table holds one of the two.
C9_RulingsReplacedAtomically ==
  \A w \in DOMAIN writer :
    (IsRulingsUpsert(writer[w].op) /\ writer[w].pc \in {"createRuling", "failed", "done"})
      => /\ rulings[writer[w].id] \in {writer[w].old, RulingRows(writer[w].new)}
         /\ (observed.seen /\ observed.id = writer[w].id)
              => observed.rulings \in {writer[w].old, RulingRows(writer[w].new)}

\* The row's normalizedName is the normal form of its name
Derived(row) == row.normalizedName = normalizeName(row.name)

\* C32: in every reachable state of the store, every entity written by the
\* resolver or by the sync engine has normalizedName = normalize(name) and every
\* face has normalizedName = normalize(face name); no statement sets a
\* normalizedName that is not derived from the name it writes.
C32_NormalizedNameDerivedFromName ==
  /\ [](\A id \in DOMAIN cards :
          /\ cards[id].present => Derived(cards[id])
          /\ \A k \in DOMAIN faces[id] : Derived(faces[id][k]))
  /\ [][\A id \in DOMAIN cards :
          /\ cards'[id] # cards[id] => Derived(cards'[id])
          /\ \A k \in DOMAIN faces'[id] :
               (k \notin DOMAIN faces[id] \/ faces'[id][k] # faces[id][k])
                 => Derived(faces'[id][k])]_vars

\* C32 witness: an upsert has written an entity and two faces, one of them and
\* the entity under names that are not in normal form
C32_Witness ==
  \E w \in DOMAIN writer, id \in DOMAIN cards :
    /\ writer[w].pc = "done" /\ IsCardUpsert(writer[w].op) /\ writer[w].id = id
    /\ cards[id].present /\ cards[id].normalizedName # cards[id].name
    /\ Len(faces[id]) = 2
    /\ faces[id][2].normalizedName # faces[id][2].name

-----------------------------------------------------------------------------
(* Two writers upserting the same record: two sync runs, or a sync run and the
   resolver's remote fallback *)

\* The record both writers are given
RaceRecord == log[1]

RaceInit ==
  /\ IdleSync
  /\ cards = [i \in {1} |-> NoCard]
  /\ faces = [i \in {1} |-> << >>]
  /\ rulings = [i \in {1} |-> << >>]
  /\ writer = [w \in {1, 2} |-> IdleWriter]
  /\ observed = NotSeen
  /\ log \in {<<rec>> : rec \in CardInputs}
  /\ IdleClient

\* Each writer upserts the record once, at any time
RaceNext ==
  \/ \E w \in DOMAIN writer, op \in {"upsertCard", "upsertCardFromScryfall"} :
       UpsertCardBegin(w, op, RaceRecord)
  \/ \E w \in DOMAIN writer : DeleteFaces(w)
  \/ \E w \in DOMAIN writer : CreateFace(w)

RaceSpec == RaceInit /\ [][RaceNext]_vars

\* C37: upserting the same record twice, one writer after the other or two
\* writers interleaved, leaves the entity and its faces exactly as a single
\* upsert does, with no duplicated and no missing face.
C37_UpsertTwiceAsOnce ==
  (\A w \in DOMAIN writer : writer[w].pc = "done")
    => LET once == upsertCard([i \in {1} |-> NoCard], [i \in {1} |-> << >>], RaceRecord)
       IN cards = once.cards /\ faces = once.faces

-----------------------------------------------------------------------------
(* syncRulings: the rulings of many entities replaced in one call *)

MaxSyncRulings == 3   \* most rulings given to one syncRulings call

SyncOracleIds == {1, 2}

\* The ScryfallRuling[] a call can be given
SyncRulingInputs == SeqsUpTo([oracle_id : SyncOracleIds, comment : Comments], MaxSyncRulings)

RECURSIVE OracleIdsOf(_)
OracleIdsOf(rl) == IF rl = << >> THEN << >> ELSE <<Head(rl).oracle_id>> \o OracleIdsOf(Tail(rl))

\* The keys of rulingsByOracleId, in insertion order
GroupIds(rl) == Dedupe(OracleIdsOf(rl), {})

RECURSIVE CommentsFor(_, _)
\* rulingsByOracleId.get(oracleId): the comments of the rulings of that id, in input order
CommentsFor(rl, oracleId) ==
  IF rl = << >> THEN << >>
  ELSE IF Head(rl).oracle_id = oracleId
       THEN <<Head(rl).comment>> \o CommentsFor(Tail(rl), oracleId)
       ELSE CommentsFor(Tail(rl), oracleId)

IdleRulingsSync ==
  [pc |-> "idle", input |-> << >>, ids |-> << >>, g |-> 0, i |-> 0, success |-> 0, failures |-> 0]

\* The id of the group at work
GroupId == writer[1].ids[writer[1].g]

\* The for-of loop moves to the next entry of the map, or the function returns
NextGroup(w, success, failures) ==
  [w EXCEPT !.g = @ + 1, !.i = 0, !.success = success, !.failures = failures,
            !.pc = IF w.g + 1 > Len(w.ids) THEN "done" ELSE "findCard"]

\* syncRulings(rulings): the grouping loop
SyncRulingsCall(rl) ==
  /\ writer[1].pc = "idle"
  /\ log = << >>
  /\ writer' = [writer EXCEPT ![1] =
                  NextGroup([IdleRulingsSync EXCEPT !.input = rl, !.ids = GroupIds(rl)], 0, 0)]
  /\ log' = <<[op |-> "syncRulings", rulings |-> rl]>>
  /\ UNCHANGED <<syncVars, storeVars, observed, clientVars>>

\* A lookup that takes every id for a stored one
CardFound_Always(oracleId) == TRUE

\* db.card.findUnique({oracleId}) returned a row
CardFound(oracleId) == cards[oracleId].present

\* findUnique; `if (!card) continue`
SyncFindCard ==
  /\ writer[1].pc = "findCard"
  /\ IF CardFound(GroupId)
     THEN /\ writer' = [writer EXCEPT ![1].pc = "deleteRulings"]
          /\ log' = log
     ELSE /\ writer' = [writer EXCEPT ![1] = NextGroup(@, @.success, @.failures)]
          /\ log' = Append(log, [op |-> "group", id |-> GroupId, outcome |-> "skipped"])
  /\ UNCHANGED <<syncVars, storeVars, observed, clientVars>>

\* db.ruling.deleteMany({oracleId})
SyncDeleteRulings ==
  /\ writer[1].pc = "deleteRulings"
  /\ rulings' = [rulings EXCEPT ![GroupId] = << >>]
  /\ writer' = [writer EXCEPT ![1].pc = "createRuling", ![1].i = 0]
  /\ UNCHANGED <<syncVars, cards, faces, observed, log, clientVars>>

\* db.ruling.create for the next ruling of the group; success++ after the last
SyncCreateRuling ==
  /\ writer[1].pc = "createRuling"
  /\ LET cardRulings == CommentsFor(writer[1].input, GroupId)
         last == writer[1].i + 1 = Len(cardRulings)
     IN /\ rulings' = [rulings EXCEPT ![GroupId] =
                         Append(@, RulingRow(cardRulings[writer[1].i + 1]))]
        /\ writer' = [writer EXCEPT ![1] =
                        IF last THEN NextGroup(@, @.success + 1, @.failures)
                        ELSE [@ EXCEPT !.i = @ + 1]]
        /\ log' = IF last
                  THEN Append(log, [op |-> "group", id |-> GroupId, outcome |-> "success"])
                  ELSE log
  /\ UNCHANGED <<syncVars, cards, faces, observed, clientVars>>

\* The next write statement raises: catch, failures++, next group
SyncStatementFails ==
  /\ writer[1].pc \in {"deleteRulings", "createRuling"}
  /\ writer' = [writer EXCEPT ![1] = NextGroup(@, @.success, @.failures + 1)]
  /\ log' = Append(log, [op |-> "group", id |-> GroupId, outcome |-> "failure"])
  /\ UNCHANGED <<syncVars, storeVars, observed, clientVars>>

\* return { success, failures }
SyncRulingsReturns ==
  /\ writer[1].pc = "done"
  /\ writer' = [writer EXCEPT ![1].pc = "returned"]
  /\ log' = Append(log, [op |-> "return", success |-> writer[1].success,
                          failures |-> writer[1].failures])
  /\ UNCHANGED <<syncVars, storeVars, observed, clientVars>>

\* A store of present and absent entities, the present ones with or without rulings
RulingsSyncInit ==
  /\ IdleSync
  /\ cards \in [SyncOracleIds -> {NoCard, CardRow([name |-> <<"a">>])}]
  /\ faces = [i \in SyncOracleIds |-> << >>]
  /\ rulings \in [SyncOracleIds -> {<< >>, RulingRows(<<"r2">>)}]
  /\ \A id \in SyncOracleIds : ~cards[id].present => rulings[id] = << >>
  /\ writer = [w \in {1} |-> IdleRulingsSync]
  /\ observed = NotSeen
  /\ log = << >>
  /\ IdleClient

RulingsSyncNext ==
  \/ \E rl \in SyncRulingInputs : SyncRulingsCall(rl)
  \/ SyncFindCard
  \/ SyncDeleteRulings
  \/ SyncCreateRuling
  \/ SyncStatementFails
  \/ SyncRulingsReturns

RulingsSyncSpec == RulingsSyncInit /\ [][RulingsSyncNext]_vars

\* The ids of the input that have an entity
EntityIds(rl) == {id \in SyncOracleIds : cards[id].present /\ CommentsFor(rl, id) # << >>}

GroupOutcomes(outcome) == {k \in DOMAIN log : log[k].op = "group" /\ log[k].outcome = outcome}

\* No entity is created, no ruling is written for an id without entity, and a
\* returned call counted the ids with an entity, each once
SyncRulingsSkipsUnknownIds ==
  /\ [][/\ cards' = cards
        /\ \A id \in SyncOracleIds : ~cards[id].present => rulings'[id] = rulings[id]]_vars
  /\ [](writer[1].pc = "returned"
         => /\ writer[1].success + writer[1].failures = Cardinality(EntityIds(writer[1].input))
            /\ \A k \in GroupOutcomes("skipped") : ~cards[log[k].id].present)

-----------------------------------------------------------------------------
(* The resolver *)

MaxResolves == 2     \* resolveCardName calls per behaviour

\* The remote catalog: two single-faced cards with a common prefix and a split card
CatalogIds == {1, 2, 3}

RemoteCard(id) ==
  CASE id = 1 -> [oracle_id |-> 1, name |-> <<"A", "b", "c", "a">>, card_faces |-> << >>]
    [] id = 2 -> [oracle_id |-> 2, name |-> <<"a", "b", "c", "b">>, card_faces |-> << >>]
    [] id = 3 -> [oracle_id |-> 3, name |-> <<"a", " ", "/", "/", " ", "b">>,
                  card_faces |-> << <<"a">>, <<"b">> >>]

\* The names given to resolveCardName: exact names, a differently cased and
\* punctuated spelling, a common prefix, a misspelling, a split name, the
\* same faces in the other order, a face name
ResolveInputs ==
  { <<"A", "b", "c", "a">>, <<"a", "b", "c", "a", "!">>, <<"a", "b", "c", "b">>,
    <<"a", "b", "c">>, <<"a", "b", "c", "c">>,
    <<"a", " ", "/", "/", " ", "b">>, <<"b", " ", "/", "/", " ", "a">>, <<"b">> }

Max(a, b) == IF a > b THEN a ELSE b

\* String.prototype.slice(0, n)
SliceTo(s, n) == SubSeq(s, 1, Min(n, Len(s)))

StartsWith(s, prefix) == Len(prefix) <= Len(s) /\ SubSeq(s, 1, Len(prefix)) = prefix

StoredIds == {id \in DOMAIN cards : cards[id].present}

\* An exact stage that accepts every stored name the primary variant begins
ExactHits_StartsWith(primary) ==
  {id \in StoredIds : StartsWith(cards[id].normalizedName, primary)}

\* An exact stage that looks the variant up in the name column
ExactHits_ByName(primary) == {id \in StoredIds : cards[id].name = primary}

\* Stage 1: db.card.findFirst({normalizedName: primaryNormalized})
ExactHits(primary) == {id \in StoredIds : cards[id].normalizedName = primary}

\* A face lookup that takes any stored face, whatever its name
FaceHits_AnyFace(variant) ==
  {h \in StoredIds \X (1..MaxFaces) : h[2] <= Len(faces[h[1]])}

\* Stage 2: db.cardFace.findFirst({normalizedName: variant}), as <<card, row>> pairs
FaceHits(variant) ==
  {h \in StoredIds \X (1..MaxFaces) :
     h[2] <= Len(faces[h[1]]) /\ faces[h[1]][h[2]].normalizedName = variant}

\* The first variant, in order, that has a face hit (0 when none has)
RECURSIVE FirstFaceVariant(_, _)
FirstFaceVariant(variants, k) ==
  IF k > Len(variants) THEN 0
  ELSE IF FaceHits(variants[k]) # {} THEN k
  ELSE FirstFaceVariant(variants, k + 1)

\* A prefix of half the variant, however short
PrefixOf_Half(primary) == SliceTo(primary, Len(primary) \div 2)

\* Stage 3: the prefix of the scan and its `take`
PrefixOf(primary) == SliceTo(primary, Max(3, Len(primary) \div 2))

candidateTake == 10

PrefixMatches(primary) ==
  {id \in StoredIds : StartsWith(cards[id].normalizedName, PrefixOf(primary))}

\* A scan that keeps a single match
CandidateSets_One(primary) ==
  LET matches == PrefixMatches(primary)
      taken == Min(1, Cardinality(matches))
  IN {S \in SUBSET matches : Cardinality(S) = taken}

\* findMany(..., take: 10) without orderBy: any candidateTake of the matches
CandidateSets(primary) ==
  LET matches == PrefixMatches(primary)
      taken == Min(candidateTake, Cardinality(matches))
  IN {S \in SUBSET matches : Cardinality(S) = taken}

Result(input, status, card, face, candidates, remote) ==
  [input |-> input, status |-> status, card |-> card, matchedFace |-> face,
   candidates |-> candidates, remote |-> remote]

\* The results stages 1 to 3 of resolveCardName can return on the store as it is;
\* empty when the cascade falls through to the Scryfall fallback
LocalResults(input) ==
  LET variants == parseCardNameVariants(input)
      primary == variants[1]
      fv == FirstFaceVariant(variants, 1)
  IN IF ExactHits(primary) # {}
     THEN {Result(input, "exact", id, << >>, {}, FALSE) : id \in ExactHits(primary)}
     ELSE IF fv # 0
     THEN {Result(input, "face_match", h[1], <<faces[h[1]][h[2]].faceIndex>>, {}, FALSE) :
             h \in FaceHits(variants[fv])}
     ELSE UNION { LET exact == {id \in S : normalizeName(cards[id].name) = primary}
                  IN IF exact # {}
                     THEN {Result(input, "normalized", id, << >>, {}, FALSE) : id \in exact}
                     ELSE IF Cardinality(S) > 1
                     THEN {Result(input, "ambiguous", NULL, << >>, S, FALSE)}
                     ELSE {}
                : S \in CandidateSets(primary) }

\* Whether Scryfall's fuzzy search may answer `input` with the card named `name`:
\* the normalized names are equal, or have the same length and differ in one
\* character, or the input is a face of the card
MayFuzzyMatch(input, id) ==
  LET n == normalizeName(input)
      m == normalizeName(RemoteCard(id).name)
  IN \/ n = m
     \/ /\ Len(n) = Len(m)
        /\ Cardinality({k \in 1..Len(n) : n[k] # m[k]}) = 1
     \/ \E k \in 1..Len(RemoteCard(id).card_faces) :
          normalizeName(RemoteCard(id).card_faces[k]) = n

\* What fetchWithBackoff gives getCardByName: a response (200 with a card that
\* the fuzzy search may answer, 404, 500), or a raised error (the timeout's
\* ScryfallError 408, 'Max retries exceeded' 503, a rethrown network error)
FetchOutcomes(input) ==
  {[thrown |-> FALSE, status |-> 200, id |-> id] :
     id \in {c \in CatalogIds : MayFuzzyMatch(input, c)}}
    \cup {[thrown |-> FALSE, status |-> st, id |-> NULL] : st \in {404, 500}}
    \cup {[thrown |-> TRUE, status |-> st, id |-> NULL] : st \in {408, 503, NULL}}

\* A getCardByName that answers null to every response that is not ok
getCardByName_NullUnlessOk(outcome) ==
  [kind |-> IF outcome.thrown THEN "error"
            ELSE IF outcome.status \notin 200..299 THEN "notfound"
            ELSE "card",
   id |-> outcome.id, outcome |-> outcome]

\* getCardByName: null on 404, ScryfallError on any other response that is not
\* ok, the card otherwise; an error raised by fetchWithBackoff passes through
getCardByName(outcome) ==
  [kind |-> IF outcome.thrown THEN "error"
            ELSE IF outcome.status = 404 THEN "notfound"
            ELSE IF outcome.status \notin 200..299 THEN "error"
            ELSE "card",
   id |-> outcome.id, outcome |-> outcome]

\* The answers of getCardByName(input, {fuzzy: true}): a card, null, or an error
RemoteAnswers(input) == {getCardByName(outcome) : outcome \in FetchOutcomes(input)}

\* The answers of getRulingsByCardId
RulingsAnswers == {[ok |-> TRUE, data |-> << >>], [ok |-> TRUE, data |-> <<"r1">>],
                   [ok |-> FALSE, data |-> << >>]}

\* A resolver that stores the spelling it was asked for on the entity it returns
ResolveLocal_Renaming(input) ==
  /\ Len(log) < MaxResolves
  /\ \E res \in LocalResults(input) :
       /\ log' = Append(log, res)
       /\ cards' = IF res.card # NULL THEN [cards EXCEPT ![res.card].name = input] ELSE cards
  /\ UNCHANGED <<syncVars, faces, rulings, writerVars, clientVars>>

\* resolveCardName answered from the store
ResolveLocal(input) ==
  /\ Len(log) < MaxResolves
  /\ \E res \in LocalResults(input) : log' = Append(log, res)
  /\ UNCHANGED <<syncVars, storeVars, writerVars, clientVars>>

\* resolveCardName falling back to fetchAndCacheFromScryfall
ResolveRemote(input, answer, rulingsAnswer) ==
  /\ Len(log) < MaxResolves
  /\ LocalResults(input) = {}
  /\ CASE answer.kind = "error" ->
            /\ log' = Append(log, Result(input, "error", NULL, << >>, {}, TRUE))
            /\ UNCHANGED storeVars
       [] answer.kind = "notfound" ->
            /\ log' = Append(log, Result(input, "not_found", NULL, << >>, {}, TRUE))
            /\ UNCHANGED storeVars
       [] answer.kind = "card" ->
            LET up == upsertCardFromScryfall(cards, faces, RemoteCard(answer.id))
            IN /\ cards' = up.cards
               /\ faces' = up.faces
               /\ rulings' = IF rulingsAnswer.ok /\ Len(rulingsAnswer.data) > 0
                             THEN [rulings EXCEPT ![answer.id] = RulingRows(rulingsAnswer.data)]
                             ELSE rulings
               /\ log' = Append(log, Result(input, "fuzzy", answer.id, << >>, {}, TRUE))
  /\ UNCHANGED <<syncVars, writerVars, clientVars>>

RECURSIVE UpsertAll(_, _, _)
UpsertAll(c, f, ids) ==
  IF ids = {} THEN [cards |-> c, faces |-> f]
  ELSE LET id == CHOOSE x \in ids : TRUE
           up == upsertCard(c, f, RemoteCard(id))
       IN UpsertAll(up.cards, up.faces, ids \ {id})

\* The store holds whichever catalog cards an earlier sync or resolve has upserted
ResolveInit ==
  /\ IdleSync
  /\ \E ids \in SUBSET CatalogIds :
       LET up == UpsertAll([i \in CatalogIds |-> NoCard], [i \in CatalogIds |-> << >>], ids)
       IN cards = up.cards /\ faces = up.faces
  /\ rulings = [i \in CatalogIds |-> << >>]
  /\ IdleWriters
  /\ log = << >>
  /\ IdleClient

ResolveNext ==
  \/ \E input \in ResolveInputs : ResolveLocal(input)
  \/ \E input \in ResolveInputs :
       \E answer \in RemoteAnswers(input), rulingsAnswer \in RulingsAnswers :
         ResolveRemote(input, answer, rulingsAnswer)

ResolveSpec == ResolveInit /\ [][ResolveNext]_vars

MaxStored == 12      \* rows of the Card table in the behaviours with a large store
MaxScans == 1        \* resolveCardName calls per behaviour over the large store

ScanIds == 1..MaxStored

SuffixLetters == <<"a", "b", "c", "e">>

\* Stored card id: the three catalog cards, then single-faced cards named "abc"
\* and two letters, enough of them for one more than candidateTake names that
\* begin with "abc", then cards of other names
ScanCard(id) ==
  IF id \in CatalogIds THEN RemoteCard(id)
  ELSE [oracle_id |-> id,
        name |-> (IF id <= candidateTake + 2 THEN <<"a", "b", "c">> ELSE <<"b", "c">>)
                   \o <<SuffixLetters[((id - 4) \div 4) + 1],
                        SuffixLetters[((id - 4) % 4) + 1]>>,
        card_faces |-> << >>]

\* The names given to resolveCardName over the large store: shorter than three
\* characters, the common prefix, a stored name, longer names whose half is
\* four and five characters, a misspelling of a catalog name
ScanInputs ==
  { <<"a", "b">>, <<"a", "b", "c">>, <<"a", "b", "c", "a", "b">>,
    <<"a", "b", "c", "a", "e", "e", "e", "e">>,
    <<"a", "b", "c", "a", "a", "e", "e", "e", "e", "e">>,
    <<"a", "b", "c", "c">> }

\* The store after upserts of the cards 1..n
RECURSIVE StoreOfFirst(_)
StoreOfFirst(n) ==
  IF n = 0 THEN [cards |-> [i \in ScanIds |-> NoCard], faces |-> [i \in ScanIds |-> << >>]]
  ELSE LET before == StoreOfFirst(n - 1)
       IN upsertCard(before.cards, before.faces, ScanCard(n))

\* The store holds the first n cards, for any n
ScanInit ==
  /\ IdleSync
  /\ \E n \in 0..MaxStored :
       cards = StoreOfFirst(n).cards /\ faces = StoreOfFirst(n).faces
  /\ rulings = [i \in ScanIds |-> << >>]
  /\ IdleWriters
  /\ log = << >>
  /\ IdleClient

\* resolveCardName over the large store, answered from the store
ScanLocal(input) == Len(log) < MaxScans /\ ResolveLocal(input)

\* resolveCardName over the large store, falling back to the remote client
ScanRemote(input, answer, rulingsAnswer) ==
  Len(log) < MaxScans /\ ResolveRemote(input, answer, rulingsAnswer)

ScanNext ==
  \/ \E input \in ScanInputs : ScanLocal(input)
  \/ \E input \in ScanInputs :
       \E answer \in RemoteAnswers(input), rulingsAnswer \in RulingsAnswers :
         ScanRemote(input, answer, rulingsAnswer)

ScanSpec == ScanInit /\ [][ScanNext]_vars

Primary(input) == parseCardNameVariants(input)[1]

\* C10 (as claimed): after resolve(s) returned RemoteMatch and upserted the fetched
\* entity, the next resolve(s) of the same name returns Exact without a remote call.
C10_SecondResolveExact ==
  \A k \in 1..(Len(log) - 1) :
    (log[k].status = "fuzzy" /\ log[k + 1].input = log[k].input)
      => (log[k + 1].status = "exact" /\ ~log[k + 1].remote)

\* C10 (amended): the same, for the names whose fetched entity's normalized name
\* equals the primary variant of the input.
C10_SecondResolveExactWhenNameMatches ==
  \A k \in 1..(Len(log) - 1) :
    (/\ log[k].status = "fuzzy"
     /\ log[k + 1].input = log[k].input
     /\ normalizeName(RemoteCard(log[k].card).name) = Primary(log[k].input))
      => (log[k + 1].status = "exact" /\ ~log[k + 1].remote)

\* C10 witness: a RemoteMatch of a differently spelled name followed by an Exact
\* answer to the same input
C10_Witness ==
  \E k \in 1..(Len(log) - 1) :
    /\ log[k].status = "fuzzy"
    /\ log[k + 1].input = log[k].input
    /\ log[k].input # RemoteCard(log[k].card).name
    /\ log[k + 1].status = "exact"
    /\ ~log[k + 1].remote

LastResult == log[Len(log)]

\* The face rows of the returned entity that carry the matched index and the name `variant`
MatchedFaceRows(res, variant) ==
  {j \in 1..Len(faces[res.card]) :
     /\ faces[res.card][j].normalizedName = variant
     /\ <<faces[res.card][j].faceIndex>> = res.matchedFace}

\* C11 (as claimed): FaceMatch is returned only when the normalized input contains
\* '//' and one of its split parts (a variant after the first) is the normalized
\* name of a stored face, whose parent is the entity returned.
C11_FaceMatchOnlyForSplitParts ==
  (Len(log) > 0 /\ LastResult.status = "face_match")
    => LET variants == parseCardNameVariants(LastResult.input)
       IN /\ IncludesSlashes(normalizeName(LastResult.input))
          /\ \E i \in 2..Len(variants) : MatchedFaceRows(LastResult, variants[i]) # {}

\* C11 (amended): FaceMatch is returned only when no stored entity has the primary
\* variant as its normalized name and some variant of the input, the first (the
\* whole normalized input) included, is the normalized name of a stored face; the
\* entity returned is that face's parent and matchedFace its index.
C11_FaceMatchOnAnyVariant ==
  (Len(log) > 0 /\ LastResult.status = "face_match")
    => LET variants == parseCardNameVariants(LastResult.input)
       IN /\ ExactHits(variants[1]) = {}
          /\ LastResult.card \in StoredIds
          /\ \E i \in 1..Len(variants) : MatchedFaceRows(LastResult, variants[i]) # {}

\* C11 witness: a FaceMatch for an input without '//', found by its first variant
C11_Witness ==
  /\ Len(log) > 0
  /\ LastResult.status = "face_match"
  /\ ~IncludesSlashes(normalizeName(LastResult.input))
  /\ MatchedFaceRows(LastResult, Primary(LastResult.input)) # {}

\* The step is a resolveCardName call; Answer is what it returned
Answered == Len(log') = Len(log) + 1

Answer == log'[Len(log')]

\* Stage 1 succeeds on the store as the call found it
ExactStored(input) ==
  LET primary == Primary(input)
  IN \E id \in StoredIds : cards[id].normalizedName = primary

\* Stage 2 succeeds: some variant is the normalized name of a stored face
FaceStored(input) ==
  LET variants == parseCardNameVariants(input)
  IN \E i \in 1..Len(variants) :
       \E id \in StoredIds : \E j \in 1..Len(faces[id]) :
         faces[id][j].normalizedName = variants[i]

\* Stage 3 succeeds: a candidate of the prefix scan has the primary variant as
\* its normalized name, or the scan has more than one candidate
PrefixStored(input) ==
  LET primary == Primary(input)
      matches == PrefixMatches(primary)
  IN \/ \E id \in matches : normalizeName(cards[id].name) = primary
     \/ Cardinality(matches) > 1

\* C22: resolve consults exact, face match, prefix scan and remote fallback in
\* that order and returns at the first stage that succeeds: Exact is returned if
\* and only if a stored entity's normalized name equals the primary variant, and
\* the remote client is called only when stages 1 to 3 produced no result.
C22_StagesInOrder ==
  [][Answered =>
       LET exact == ExactStored(Answer.input)
           face == FaceStored(Answer.input)
           prefix == PrefixStored(Answer.input)
       IN /\ Answer.status = "exact" <=> exact
          /\ Answer.status = "face_match" <=> ~exact /\ face
          /\ Answer.status \in {"normalized", "ambiguous"} <=> ~exact /\ ~face /\ prefix
          /\ Answer.remote <=> ~exact /\ ~face /\ ~prefix]_vars

\* C22 witness: a call that found one prefix candidate of another name went to
\* the remote client, and the next call, of a stored name, was answered Exact
C22_Witness ==
  /\ Len(log) = 2
  /\ log[1].remote /\ log[1].status = "not_found"
  /\ PrefixMatches(Primary(log[1].input)) # {}
  /\ log[2].status = "exact" /\ ~log[2].remote
  /\ log[2].input # cards[log[2].card].name

\* C23: with no exact and no face match, and a prefix scan of more than one
\* candidate none of which equals the primary variant, resolve returns Ambiguous
\* with those candidates (at most 10) and no entity; it picks none of them, writes
\* nothing and makes no remote call.
C23_SeveralCandidatesAreAmbiguous ==
  [][(/\ Answered
      /\ ~ExactStored(Answer.input) /\ ~FaceStored(Answer.input)
      /\ Cardinality(PrefixMatches(Primary(Answer.input))) > 1
      /\ \A id \in PrefixMatches(Primary(Answer.input)) :
           normalizeName(cards[id].name) # Primary(Answer.input))
       => /\ Answer.status = "ambiguous"
          /\ Answer.card = NULL
          /\ ~Answer.remote
          /\ Answer.candidates \subseteq PrefixMatches(Primary(Answer.input))
          /\ Cardinality(Answer.candidates) > 1
          /\ Cardinality(Answer.candidates) <= 10
          /\ UNCHANGED storeVars]_vars

\* C23 witness: an Ambiguous answer with several candidates, fewer than the cap
C23_Witness ==
  /\ Len(log) > 0
  /\ LastResult.status = "ambiguous"
  /\ LastResult.card = NULL /\ ~LastResult.remote
  /\ Cardinality(LastResult.candidates) > 2
  /\ LastResult.candidates = PrefixMatches(Primary(LastResult.input))

\* The prefix the scan is claimed to use
ExpectedPrefix(primary) ==
  LET n == Max(3, Len(primary) \div 2)
  IN IF Len(primary) < n THEN primary ELSE SubSeq(primary, 1, n)

\* C24: the prefix scan uses the first max(3, floor(len/2)) characters of the
\* primary variant (the whole variant when it is shorter), returns only entities
\* whose normalized name starts with that prefix, and never more than 10.
C24_PrefixScanBounded ==
  /\ \A input \in ScanInputs : \A S \in CandidateSets(Primary(input)) :
       /\ \A id \in S :
            /\ cards[id].present
            /\ StartsWith(cards[id].normalizedName, ExpectedPrefix(Primary(input)))
       /\ Cardinality(S) <= 10
  /\ (Len(log) > 0 /\ LastResult.status = "ambiguous")
       => /\ Cardinality(LastResult.candidates) <= 10
          /\ \A id \in LastResult.candidates :
               StartsWith(cards[id].normalizedName,
                          ExpectedPrefix(Primary(LastResult.input)))

\* C24 witness: more than 10 stored names begin with the prefix of an input
\* shorter than three characters, and the answer carries 10 of them
C24_Witness ==
  /\ Len(log) > 0
  /\ LastResult.status = "ambiguous"
  /\ Len(Primary(LastResult.input)) < 3
  /\ Cardinality(PrefixMatches(Primary(LastResult.input))) > 10
  /\ Cardinality(LastResult.candidates) = 10

\* The call writes nothing unless it returns RemoteMatch, and never when it
\* returns Exact, Ambiguous or NotFound
WritesOnlyOnRemoteMatch ==
  [][Answered =>
       /\ Answer.status \in {"exact", "ambiguous", "not_found"} => UNCHANGED storeVars
       /\ ~UNCHANGED storeVars => Answer.status = "fuzzy" /\ Answer.remote]_vars

\* Call k + 1 repeats the input of call k (which, having returned one of
\* `statuses`, left the store as it found it) and returns the same result
RepeatGivesSame(statuses) ==
  \A k \in 1..(Len(log) - 1) :
    (log[k].status \in statuses /\ log[k + 1].input = log[k].input)
      => log[k + 1] = log[k]

NoRulings == [ok |-> TRUE, data |-> << >>]

\* The fallback lookup failed: fetchWithBackoff raised, or the response is
\* neither ok nor 404
LookupFailed(outcome) == outcome.thrown \/ outcome.status \notin (200..299) \cup {404}

\* C26: a remote-client failure during the fallback name lookup (a timeout, or a
\* response that is neither 2xx nor not-found) leaves resolve as an error, never
\* as NotFound; NotFound is returned only when the remote source answered that
\* there is no match.
C26_LookupFailureIsNotNotFound ==
  [][(Answered /\ Answer.remote) =>
       /\ \A answer \in RemoteAnswers(Answer.input) :
            (LookupFailed(answer.outcome) /\ ResolveRemote(Answer.input, answer, NoRulings))
              => Answer.status = "error" /\ UNCHANGED storeVars
       /\ Answer.status = "not_found"
            => \E answer \in RemoteAnswers(Answer.input) :
                 /\ ~answer.outcome.thrown /\ answer.outcome.status = 404
                 /\ ResolveRemote(Answer.input, answer, NoRulings)]_vars

\* C26 witness: the lookup of a name failed, and the next lookup of the same
\* name was answered NotFound
C26_Witness ==
  /\ Len(log) = 2
  /\ log[1].status = "error" /\ log[1].remote
  /\ log[2].status = "not_found" /\ log[2].remote
  /\ log[2].input = log[1].input

\* C39: when every stored entity has normalizedName = normalize(name) (and
\* nothing writes the store during the call), resolve never returns Normalized:
\* a prefix-scan candidate whose normalized name equals the primary variant
\* would have been returned as Exact by stage 1.
C39_NormalizedNeverReturned ==
  [][(Answered /\ \A id \in StoredIds : Derived(cards[id]))
       => /\ Answer.status # "normalized"
          /\ \A id \in PrefixMatches(Primary(Answer.input)) :
               normalizeName(cards[id].name) = Primary(Answer.input)
                 => Answer.status = "exact"]_vars

\* C39 witness: the prefix scan of a call kept an entity stored under a name
\* that is not in normal form, and the call returned Ambiguous
C39_Witness ==
  \E k \in DOMAIN log :
    /\ log[k].status = "ambiguous"
    /\ \E id \in log[k].candidates :
         cards[id].present /\ cards[id].name # cards[id].normalizedName

-----------------------------------------------------------------------------
(* The name normaliser applied to arbitrary names *)

MaxNameLen == 3      \* most characters of a name given to normalizeName

Names == SeqsUpTo(Chars, MaxNameLen)

\* The call normalizeName(name) of a behaviour; the history keeps it and its result
NormalizeCall(name) ==
  /\ log = << >>
  /\ log' = <<[input |-> name, output |-> normalizeName(name)]>>
  /\ UNCHANGED <<syncVars, storeVars, writerVars, clientVars>>

NormalizeInit ==
  /\ IdleSync
  /\ cards = [i \in {} |-> NoCard]
  /\ faces = [i \in {} |-> << >>]
  /\ rulings = [i \in {} |-> << >>]
  /\ IdleWriters
  /\ log = << >>
  /\ IdleClient

NormalizeNext == \E name \in Names : NormalizeCall(name)

NormalizeSpec == NormalizeInit /\ [][NormalizeNext]_vars

\* The name written with ASCII apostrophes in place of the typographic ones
WithAsciiApostrophes(name) ==
  [i \in 1..Len(name) |-> IF name[i] = "rsquo" THEN "'" ELSE name[i]]

HasChar(s, c) == \E i \in 1..Len(s) : s[i] = c

\* C12: normalizeName of a name written with a typographic apostrophe equals
\* normalizeName of the same name written with the ASCII apostrophe, and the
\* apostrophe is kept in the result.
C12_TypographicApostropheFolded ==
  \A k \in DOMAIN log :
    /\ log[k].output = normalizeName(WithAsciiApostrophes(log[k].input))
    /\ HasChar(log[k].input, "rsquo") => HasChar(log[k].output, "'")

\* C29: normalize is idempotent: normalize(normalize(s)) = normalize(s) for
\* every input string s.
C29_NormalizeIdempotent ==
  \A k \in DOMAIN log : normalizeName(log[k].output) = log[k].output

\* C29 witness: a name that normalizeName changed in case, punctuation and
\* spacing at once
C29_Witness ==
  /\ Len(log) = 1
  /\ \E i \in 1..Len(log[1].input) : log[1].input[i] \in {"A", "e_acute"}
  /\ \E i \in 1..Len(log[1].input) : log[1].input[i] \in {"!", "rsquo"}
  /\ log[1].input[1] = " "
  /\ Len(log[1].output) = 1

-----------------------------------------------------------------------------
(* The variant parser applied to arbitrary split-card names *)

MaxVariantLen == 6   \* most characters of a name given to parseCardNameVariants

\* Letters of both cases, the blank and the slash: the characters of a split name
VariantChars == {"A", "b", " ", "/"}

VariantInputs == SeqsUpTo(VariantChars, MaxVariantLen)

\* "Fire // Ice" in the characters of the model: a capitalised word, " // ", a word
FireIce == <<"A", " ", "/", "/", " ", "b">>

\* The call parseCardNameVariants(input) of a behaviour; the history keeps it and its result
VariantsCall(input) ==
  /\ log = << >>
  /\ log' = <<[input |-> input, output |-> parseCardNameVariants(input)]>>
  /\ UNCHANGED <<syncVars, storeVars, writerVars, clientVars>>

VariantsNext == \E input \in VariantInputs : VariantsCall(input)

VariantsSpec == NormalizeInit /\ [][VariantsNext]_vars

\* The normalized input followed by its trimmed parts, before duplicates are removed
RawVariants(input) ==
  LET normalized == normalizeName(input)
      parts == SplitSlashes(normalized)
  IN IF IncludesSlashes(normalized)
     THEN <<normalized>> \o [i \in 1..Len(parts) |-> Trim(parts[i])]
     ELSE <<normalized>>

FirstSeen(raw, x) == CHOOSE i \in 1..Len(raw) : raw[i] = x /\ \A j \in 1..(i - 1) : raw[j] # x

\* C30: nameVariants(input) yields normalize(input) first and, only when that
\* string contains '//', then each part of it split on '//' and trimmed, with
\* duplicates removed in first-seen order; "Fire // Ice" gives exactly
\* ["fire // ice", "fire", "ice"].
C30_VariantsOfSplitNames ==
  \A k \in DOMAIN log :
    LET input == log[k].input
        out == log[k].output
        normalized == normalizeName(input)
        raw == RawVariants(input)
    IN /\ out[1] = normalized
       /\ ~IncludesSlashes(normalized) => out = <<normalized>>
       /\ {out[i] : i \in 1..Len(out)} = {raw[i] : i \in 1..Len(raw)}
       /\ \A i, j \in 1..Len(out) :
            i < j => out[i] # out[j] /\ FirstSeen(raw, out[i]) < FirstSeen(raw, out[j])
       /\ input = FireIce
            => out = << <<"a", " ", "/", "/", " ", "b">>, <<"a">>, <<"b">> >>

\* C30 witness: the variants of the split name were computed
C30_Witness ==
  /\ Len(log) = 1
  /\ log[1].input = FireIce
  /\ Len(log[1].output) = 3

-----------------------------------------------------------------------------
(* The Scryfall client: rateLimiter, fetchWithBackoff, streamBulkData *)

NumCallers == 3      \* concurrent callers of the client, one call each, of distinct API methods
StartMs == 1000      \* Date.now() when the first call is made
TickMs == 50         \* the small step of the clock
MaxTicks == 2        \* small steps of the clock per behaviour
ThrottleFaults == 1  \* failures of the remote while NumCallers callers are at work
MaxFaults == 3       \* failures of the remote while one caller is at work

minDelay == 100
retries == 3
timeout == 30000

\* The API methods built on fetchWithBackoff, and the one built on fetch
WrappedOps == {"getBulkDataManifest", "getCardByName", "getRulingsByCardId", "autocomplete"}
RawOps == {"streamBulkData"}

\* The Retry-After header of a 429: absent, a number of seconds, or not a number
RetryAfterHeaders == {"absent", "2", "date"}

\* sleep(parseInt(header || '1', 10) * 1000); setTimeout treats NaN as 0
RetryAfterMs(header) ==
  CASE header = "absent" -> 1 * 1000
    [] header = "2" -> 2 * 1000
    [] header = "date" -> 0

IdleCaller ==
  [pc |-> "idle", attempt |-> 0, n429 |-> 0, nErr |-> 0,
   at |-> 0, wakeAt |-> 0, header |-> "absent", passed |-> FALSE, outcome |-> "none"]

CallerIds == DOMAIN callers

\* The remote may still fail a request
MayFail == faults > 0

\* fetch(url): the request leaves at the current time
Departure(c) ==
  [op |-> c, at |-> clock, throttled |-> callers'[c].passed]

\* A call of API method c: fetchWithBackoff enters its loop, streamBulkData
\* calls fetch at once
Call(c) ==
  /\ callers[c].pc = "idle"
  /\ IF c \in RawOps
     THEN /\ callers' = [callers EXCEPT ![c] = [@ EXCEPT !.pc = "rawInflight", !.at = clock]]
          /\ log' = Append(log, Departure(c))
     ELSE /\ callers' = [callers EXCEPT ![c] = [@ EXCEPT !.pc = "throttle"]]
          /\ log' = log
  /\ UNCHANGED <<syncVars, storeVars, writerVars, faults, clock, lastRequest>>

\* rateLimiter.throttle up to its await, or through to the fetch when it does not sleep
ThrottleEnter(c) ==
  /\ callers[c].pc = "throttle"
  /\ LET elapsed == clock - lastRequest
     IN IF elapsed < minDelay
        THEN /\ callers' = [callers EXCEPT ![c] = [@ EXCEPT !.pc = "thSleep",
                                                            !.wakeAt = clock + (minDelay - elapsed)]]
             /\ UNCHANGED <<lastRequest, log>>
        ELSE /\ lastRequest' = clock
             /\ callers' = [callers EXCEPT ![c] = [@ EXCEPT !.pc = "inflight", !.at = clock,
                                                            !.passed = TRUE]]
             /\ log' = Append(log, Departure(c))
  /\ UNCHANGED <<syncVars, storeVars, writerVars, faults, clock>>

\* The sleep of throttle ends: lastRequest = Date.now(), then the fetch
ThrottleWake(c) ==
  /\ callers[c].pc = "thSleep"
  /\ clock >= callers[c].wakeAt
  /\ lastRequest' = clock
  /\ callers' = [callers EXCEPT ![c] = [@ EXCEPT !.pc = "inflight", !.at = clock,
                                                 !.wakeAt = 0, !.passed = TRUE]]
  /\ log' = Append(log, Departure(c))
  /\ UNCHANGED <<syncVars, storeVars, writerVars, faults, clock>>

\* A response other than 429 is returned to the caller (`at` keeps the time it arrived)
Respond(c) ==
  /\ callers[c].pc = "inflight"
  /\ callers' = [callers EXCEPT ![c] = [@ EXCEPT !.pc = "done", !.at = clock, !.outcome = "response"]]
  /\ UNCHANGED <<syncVars, storeVars, writerVars, faults, clock, lastRequest, log>>

\* A 429 response: sleep Retry-After seconds
Respond429(c, header) ==
  /\ callers[c].pc = "inflight"
  /\ MayFail
  /\ faults' = faults - 1
  /\ callers' = [callers EXCEPT ![c] = [@ EXCEPT !.pc = "sleep429", !.n429 = @ + 1,
                                                 !.header = header, !.at = clock,
                                                 !.wakeAt = clock + RetryAfterMs(header)]]
  /\ UNCHANGED <<syncVars, storeVars, writerVars, clock, lastRequest, log>>

\* A loop that never gives up
NextAttempt_Unbounded(c) ==
  [callers EXCEPT ![c] = [@ EXCEPT !.pc = "throttle", !.attempt = @ + 1,
                                   !.at = 0, !.wakeAt = 0, !.header = "absent"]]

\* The for loop's attempt++ and test
NextAttempt(c) ==
  IF callers[c].attempt + 1 < retries
  THEN [callers EXCEPT ![c] = [@ EXCEPT !.pc = "throttle", !.attempt = @ + 1,
                                        !.at = 0, !.wakeAt = 0, !.header = "absent"]]
  ELSE [callers EXCEPT ![c] = [@ EXCEPT !.pc = "done", !.attempt = @ + 1,
                                        !.at = 0, !.wakeAt = 0, !.header = "absent",
                                        !.outcome = "maxRetries"]]

\* The sleep after a 429 ends: `continue`
After429(c) ==
  /\ callers[c].pc = "sleep429"
  /\ clock >= callers[c].wakeAt
  /\ callers' = NextAttempt(c)
  /\ UNCHANGED <<syncVars, storeVars, writerVars, faults, clock, lastRequest, log>>

\* fetch rejects with an error other than the abort: rethrown on the last
\* attempt, else sleep 1000 * (attempt + 1)
NetworkError(c) ==
  /\ callers[c].pc = "inflight"
  /\ MayFail
  /\ faults' = faults - 1
  /\ IF callers[c].attempt = retries - 1
     THEN callers' = [callers EXCEPT ![c] = [@ EXCEPT !.pc = "done", !.nErr = @ + 1, !.at = 0,
                                                      !.outcome = "error"]]
     ELSE callers' = [callers EXCEPT ![c] = [@ EXCEPT !.pc = "backoff", !.nErr = @ + 1,
                                                      !.at = clock,
                                                      !.wakeAt = clock + 1000 * (callers[c].attempt + 1)]]
  /\ UNCHANGED <<syncVars, storeVars, writerVars, clock, lastRequest, log>>

AfterBackoff(c) ==
  /\ callers[c].pc = "backoff"
  /\ clock >= callers[c].wakeAt
  /\ callers' = NextAttempt(c)
  /\ UNCHANGED <<syncVars, storeVars, writerVars, faults, clock, lastRequest, log>>

\* An abort handled like any other exception of fetch
RequestTimeout_Retried(c) ==
  /\ callers[c].pc = "inflight"
  /\ MayFail
  /\ faults' = faults - 1
  /\ clock >= callers[c].at + timeout
  /\ IF callers[c].attempt = retries - 1
     THEN callers' = [callers EXCEPT ![c] = [@ EXCEPT !.pc = "done", !.at = 0,
                                                      !.outcome = "timeout"]]
     ELSE callers' = [callers EXCEPT ![c] = [@ EXCEPT !.pc = "backoff", !.at = clock,
                                                      !.wakeAt = clock + 1000 * (callers[c].attempt + 1)]]
  /\ UNCHANGED <<syncVars, storeVars, writerVars, clock, lastRequest, log>>

\* The abort timer fires: ScryfallError('Request timeout'), not retried
RequestTimeout(c) ==
  /\ callers[c].pc = "inflight"
  /\ MayFail
  /\ faults' = faults - 1
  /\ clock >= callers[c].at + timeout
  /\ callers' = [callers EXCEPT ![c] = [@ EXCEPT !.pc = "done", !.at = 0, !.outcome = "timeout"]]
  /\ UNCHANGED <<syncVars, storeVars, writerVars, clock, lastRequest, log>>

\* streamBulkData's fetch settles: the body, or 'Failed to start bulk data download'
RawRespond(c, ok) ==
  /\ callers[c].pc = "rawInflight"
  /\ callers' = [callers EXCEPT ![c] = [@ EXCEPT !.pc = "done", !.at = 0,
                                                 !.outcome = IF ok THEN "stream" ELSE "error"]]
  /\ UNCHANGED <<syncVars, storeVars, writerVars, faults, clock, lastRequest, log>>

\* The times at which a timer is due
Deadlines ==
  {callers[c].wakeAt : c \in {x \in CallerIds : callers[x].pc \in {"thSleep", "sleep429", "backoff"}}}
    \cup {callers[c].at + timeout : c \in {x \in CallerIds : callers[x].pc = "inflight" /\ MayFail}}

\* Time passes by a small step
Tick ==
  /\ clock + TickMs <= StartMs + MaxTicks * TickMs
  /\ clock' = clock + TickMs
  /\ UNCHANGED <<syncVars, storeVars, writerVars, faults, lastRequest, callers, log>>

\* Time passes to the next timer that is due
AdvanceToTimer ==
  /\ \E d \in Deadlines : d > clock
  /\ clock' = CHOOSE d \in Deadlines : d > clock /\ \A e \in Deadlines : e > clock => d <= e
  /\ UNCHANGED <<syncVars, storeVars, writerVars, faults, lastRequest, callers, log>>

\* No call made yet; the methods of `ops` about to be called, the remote
\* failing at most `f` requests
ClientIdle(ops, f) ==
  /\ IdleSync
  /\ cards = [i \in {} |-> NoCard]
  /\ faces = [i \in {} |-> << >>]
  /\ rulings = [i \in {} |-> << >>]
  /\ IdleWriters
  /\ log = << >>
  /\ clock = StartMs
  /\ lastRequest = 0
  /\ callers = [c \in ops |-> IdleCaller]
  /\ faults = f

\* Concurrent callers
ThrottleInit ==
  \E ops \in SUBSET (WrappedOps \cup RawOps) :
    Cardinality(ops) = NumCallers /\ ClientIdle(ops, ThrottleFaults)

\* One caller, the remote failing up to the retry budget
RetryInit == \E op \in WrappedOps \cup RawOps : ClientIdle({op}, MaxFaults)

ClientNext ==
  \/ \E c \in CallerIds : Call(c)
  \/ \E c \in CallerIds : ThrottleEnter(c)
  \/ \E c \in CallerIds : ThrottleWake(c)
  \/ \E c \in CallerIds : Respond(c)
  \/ \E c \in CallerIds, header \in RetryAfterHeaders : Respond429(c, header)
  \/ \E c \in CallerIds : After429(c)
  \/ \E c \in CallerIds : NetworkError(c)
  \/ \E c \in CallerIds : AfterBackoff(c)
  \/ \E c \in CallerIds : RequestTimeout(c)
  \/ \E c \in CallerIds, ok \in BOOLEAN : RawRespond(c, ok)
  \/ Tick
  \/ AdvanceToTimer

ThrottleSpec == ThrottleInit /\ [][ClientNext]_vars

RetrySpec == RetryInit /\ [][ClientNext]_vars

\* C4: no two requests that went through the throttle depart less than minDelay
\* apart, whichever callers issued them.
C4_DeparturesMinDelayApart ==
  \A i, j \in DOMAIN log :
    (i < j /\ log[i].throttled /\ log[j].throttled)
      => log[j].at - log[i].at >= minDelay

\* C5: every request sent to the remote catalog, the opening of the bulk
\* download stream included, has passed the throttle before it departs.
C5_EveryRequestThrottled ==
  \A k \in DOMAIN log : log[k].throttled

\* C6: a 429 response does not consume a retry-budget slot: the attempts used
\* count the network errors only, and a call never gives up after 429 responses.
C6_RateLimitKeepsRetryBudget ==
  \A c \in CallerIds \cap WrappedOps :
    /\ callers[c].pc \in {"throttle", "thSleep", "inflight"}
         => callers[c].attempt = callers[c].nErr
    /\ callers[c].outcome # "maxRetries"

\* The requests caller c has issued
Requests(c) == {k \in DOMAIN log : log[k].op = c}

\* The request of c that is in flight raises an exception other than the abort
Raises(c) == callers[c].pc = "inflight" /\ callers'[c].nErr = callers[c].nErr + 1

C28_TimeoutIsFinal ==
  [][\A c \in CallerIds \cap WrappedOps :
       /\ RequestTimeout(c)
            => /\ clock >= callers[c].at + timeout
               /\ callers'[c].pc = "done" /\ callers'[c].outcome = "timeout"
               /\ log' = log
       /\ callers[c].outcome = "timeout"
            => callers'[c] = callers[c] /\ Requests(c) = {k \in DOMAIN log' : log'[k].op = c}
       /\ callers'[c].outcome = "timeout"
            => callers[c].outcome = "timeout"
                 \/ (callers[c].pc = "inflight" /\ clock >= callers[c].at + timeout)]_vars

\* C28 witness: the first request of a call timed out after 30 s and the call
\* ended with the timeout error, two attempts of its budget unused
C28_Witness ==
  \E c \in CallerIds \cap WrappedOps :
    /\ callers[c].pc = "done" /\ callers[c].outcome = "timeout"
    /\ callers[c].attempt = 0
    /\ Cardinality(Requests(c)) = 1
    /\ clock >= StartMs + timeout

\* The step sends a request of caller c that has passed the throttle
Departs(c) ==
  /\ Len(log') = Len(log) + 1
  /\ log'[Len(log')].op = c
  /\ log'[Len(log')].throttled

\* C40: each call through the client is held back until at least minDelay has
\* elapsed since the previous call completed: no request is sent less than
\* minDelay after the response to an earlier request arrived.
C40_HeldBackSinceLastResponse ==
  [][\A c \in CallerIds, d \in CallerIds :
       (Departs(c) /\ callers[d].pc = "done" /\ callers[d].outcome = "response")
         => clock - callers[d].at >= minDelay]_vars

====
